---- MODULE Spec2Model ----
(***************************************************************************)
(* State-machine model of flopy's UnstructuredGrid                         *)
(* (src/unstructuredgrid.py).  One grid instance is modelled: `self` holds *)
(* its fields, `pc` tells whether the constructor has run and whether it   *)
(* produced the instance ("new", "alive", "failed"), and `ret` records the *)
(* outcome (return value or raised exception) of the last call.  None is the empty tuple and a present value v is <<v>>. *)
(* Python containers are 0-based, TLA+ sequences 1-based: element i of a   *)
(* Python list is element i + 1 of the sequence that models it.            *)
(***************************************************************************)
EXTENDS Integers, Sequences, FiniteSets, TLC

VARIABLES self, pc, ret

vars == <<self, pc, ret>>

----------------------------------------------------------------------------
(* Bounds of the model. *)

\* largest number of cells in an iverts argument, and largest per-layer count
\* offered in an ncpl argument
MaxCells == 2

\* largest number of layers offered in an ncpl argument
MaxLay == 2

\* the largest number of cell lines of a grid specification file
MaxLines == 4

\* the largest number of nodes of a connection list
MaxNodes == 3

----------------------------------------------------------------------------
(* Python values. *)

None == << >>

Some(v) == <<v>>

Val(o) == o[1]

RECURSIVE SumSeq(_)
SumSeq(s) == IF s = << >> THEN 0 ELSE Head(s) + SumSeq(Tail(s))

\* sum of the first k entries of s
RECURSIVE SumFirst(_, _)
SumFirst(s, k) == IF k = 0 THEN 0 ELSE SumFirst(s, k - 1) + s[k]

Min(S) == CHOOSE m \in S : \A n \in S : m <= n

Max(S) == CHOOSE m \in S : \A n \in S : m >= n

Range(s) == {s[i] : i \in 1..Len(s)}

RECURSIVE Flatten(_)
Flatten(ss) == IF ss = << >> THEN << >> ELSE Head(ss) \o Flatten(Tail(ss))

----------------------------------------------------------------------------
(* Constructor arguments.  Coordinates are integers; the two cells are the  *)
(* squares [0,2]x[0,2] ("left") and [2,4]x[0,2] ("right").  The vertex list *)
(* holds the corner (2,0) twice, under ids 1 and 2, as a grid assembled     *)
(* cell by cell does.  A vertex is <<iv, xv, yv>>.                          *)

Vertices ==
    << <<0, 0, 0>>, <<1, 2, 0>>, <<2, 2, 0>>, <<3, 4, 0>>,
       <<4, 0, 2>>, <<5, 2, 2>>, <<6, 4, 2>> >>

\* left cell, counter-clockwise; right cell, clockwise
CellLeft == <<0, 1, 5, 4>>

CellRight == <<2, 5, 6, 3>>

\* iverts of n cells: left, right, left, ...
IvertsArg(n) == [c \in 1..n |-> IF c % 2 = 1 THEN CellLeft ELSE CellRight]

XcArg(n) == [c \in 1..n |-> IF c % 2 = 1 THEN 1 ELSE 3]

YcArg(n) == [c \in 1..n |-> 1]

\* elevations of nn nodes stacked in layers of per nodes: layer k spans the
\* elevations from 2 - 2 * k up to 4 - 2 * k
TopArg(nn, per) == [n \in 1..nn |-> 4 - 2 * ((n - 1) \div per)]

BotmArg(nn, per) == [n \in 1..nn |-> 2 - 2 * ((n - 1) \div per)]

\* An ncpl argument: the Python type of the value, the number of dimensions
\* numpy gives it, and its integer entries in row-major order.
\* The one-dimensional values offered: every count c as an integer, lists of
\* 2..MaxLay layers of c cells, lists <<c, d>> of two layers, a tuple with an
\* empty first layer and an array; the others are refused by set_ncpl.
NcplLists ==
    {[k \in 1..lay |-> c] : c \in 1..MaxCells, lay \in 2..MaxLay}
    \cup {<<c, d>> : c \in 1..MaxCells, d \in 1..MaxCells}

NcplArgs ==
    {[kind |-> "int", ndim |-> 0, data |-> <<n>>] : n \in 1..MaxCells}
    \cup {[kind |-> "list", ndim |-> 1, data |-> s] : s \in NcplLists}
    \cup {[kind |-> "tuple", ndim |-> 1, data |-> <<0, 2>>],
          [kind |-> "ndarray", ndim |-> 1, data |-> <<1>>],
          [kind |-> "ndarray", ndim |-> 2, data |-> <<1, 1>>],
          [kind |-> "float", ndim |-> 0, data |-> <<2>>],
          [kind |-> "NoneType", ndim |-> 0, data |-> << >>]}

NoNcpl == [kind |-> "NoneType", ndim |-> 0, data |-> << >>]

----------------------------------------------------------------------------
(* Derived properties of a grid g (a record of the instance's fields). *)

is_valid(g) ==
    /\ g._iverts # None
    /\ g._vertices # None
    /\ g._xc # None
    /\ g._yc # None

\* Grid.is_complete of the base class
Grid_is_complete(g) == g._top # None /\ g._botm # None

\* `self.is_valid is not None`: is_valid is a bool, which is never None
is_valid_is_not_None(g) == is_valid(g) \in BOOLEAN

is_complete(g) == is_valid_is_not_None(g) /\ Grid_is_complete(g)

ncpl(g) == g._ncpl

nlay(g) == IF ncpl(g) = None THEN None ELSE Some(Len(Val(ncpl(g))))

nnodes(g) == IF ncpl(g) = None THEN None ELSE Some(SumSeq(Val(ncpl(g))))

\* grid_varies_by_layer raises when the grid is valid and self.ncpl[0] does
\* not exist (ncpl is None or empty)
gvbl_raises(g) ==
    is_valid(g) /\ (ncpl(g) = None \/ Val(ncpl(g)) = << >>)

grid_varies_by_layer(g) ==
    IF is_valid(g) THEN Val(ncpl(g))[1] # Len(Val(g._iverts)) ELSE FALSE

----------------------------------------------------------------------------
(* Grid base class: cache bookkeeping. *)

\* CachedData(data): a fresh entry is up to date
CachedData(data) == [data |-> data, out_of_date |-> FALSE]

\* Grid._require_cache_updates: every entry now in the cache is out of date
require_cache_updates(cache) ==
    [k \in DOMAIN cache |-> [cache[k] EXCEPT !.out_of_date = TRUE]]

EmptyCache == [k \in {} |-> CachedData(None)]

----------------------------------------------------------------------------
(* set_ncpl and the constructor.  An operation on a grid is an operator     *)
(* giving [raised, exc, grid, value]: whether it raised and what, the grid  *)
(* as the call leaves it, and the value returned; built tells whether the   *)
(* call ran _build_grid_geometry_info, live whether the value returned is   *)
(* the cache's own data rather than a copy.                                 *)

Raise(exc, g) ==
    [raised |-> TRUE, exc |-> exc, grid |-> g, value |-> None,
     built |-> FALSE, live |-> FALSE]

Return(v, g) ==
    [raised |-> FALSE, exc |-> "", grid |-> g, value |-> v,
     built |-> FALSE, live |-> FALSE]

\* Faulty variants of set_ncpl, kept to show that the properties below
\* tell them from the code: the first stores the value before it looks at
\* its type and shape, the second leaves the cache entries as they are.
set_ncpl_unchecked(g, a) ==
    LET a1 == IF a.kind = "int"
              THEN [kind |-> "ndarray", ndim |-> 1, data |-> a.data]
              ELSE a
        g1 == [g EXCEPT !._ncpl = Some(a1.data),
                        !._cache_dict = require_cache_updates(@)]
    IN  IF a1.kind \notin {"list", "tuple", "ndarray"}
        THEN Raise("TypeError", g1)
        ELSE IF a1.ndim # 1
        THEN Raise("AssertionError", g1)
        ELSE Return(None, g1)

set_ncpl_keeps_cache(g, a) ==
    LET a1 == IF a.kind = "int"
              THEN [kind |-> "ndarray", ndim |-> 1, data |-> a.data]
              ELSE a
    IN  IF a1.kind \notin {"list", "tuple", "ndarray"}
        THEN Raise("TypeError", g)
        ELSE IF a1.ndim # 1
        THEN Raise("AssertionError", g)
        ELSE Return(None, [g EXCEPT !._ncpl = Some(a1.data)])

set_ncpl(g, a) ==
    LET a1 == IF a.kind = "int"
              THEN [kind |-> "ndarray", ndim |-> 1, data |-> a.data]
              ELSE a
    IN  IF a1.kind \notin {"list", "tuple", "ndarray"}
        THEN Raise("TypeError", g)
        ELSE IF a1.ndim # 1
        THEN Raise("AssertionError", g)
        ELSE Return(None,
                    [g EXCEPT !._ncpl = Some(a1.data),
                              !._cache_dict = require_cache_updates(@)])

\* a keyword argument of a call: the value passed, or the default None
Kw(args, name) == IF name \in DOMAIN args THEN args[name] ELSE None

\* the fields as __init__ has set them when it reaches the ncpl handling
\* (lines 157-186; the base class sets the cache, the copy flag and the
\* memoised polygons and neighbors)
NewGrid(args) ==
    [_vertices |-> args.vertices, _iverts |-> args.iverts,
     _xc |-> args.xcenters, _yc |-> args.ycenters,
     _top |-> args.top, _botm |-> args.botm,
     _ncpl |-> None,
     _xoff |-> args.xoff, _yoff |-> args.yoff, _angrot |-> args.angrot,
     _iac |-> args.iac, _ja |-> args.ja,
     _nodes |-> Kw(args, "nodes"), _njag |-> Kw(args, "njag"),
     _nper |-> <<Kw(args, "nper")>>,
     _neighbors |-> None, _polygons |-> None,
     _cache_dict |-> EmptyCache, _copy_cache |-> TRUE]

\* lines 196-205: the length check on iverts
iverts_check(g) ==
    IF g._iverts = None THEN Return(None, g)
    ELSE IF gvbl_raises(g) THEN Raise("IndexError", g)
    ELSE IF grid_varies_by_layer(g)
    THEN IF Len(Val(g._iverts)) = Val(nnodes(g))
         THEN Return(None, g) ELSE Raise("AssertionError", g)
    ELSE IF ncpl(g) = None THEN Raise("TypeError", g)
    ELSE IF \A k \in 1..Len(Val(ncpl(g))) : Val(ncpl(g))[k] = Len(Val(g._iverts))
         THEN Return(None, g) ELSE Raise("AssertionError", g)

UnstructuredGrid(args) ==
    LET g0 == NewGrid(args)
        r1 == IF args.ncpl # NoNcpl
              THEN set_ncpl(g0, args.ncpl)
              ELSE IF is_valid(g0)
              THEN set_ncpl(g0, [kind |-> "int", ndim |-> 0,
                                 data |-> <<Len(Val(g0._iverts))>>])
              ELSE Return(None, g0)
    IN  IF r1.raised THEN r1 ELSE iverts_check(r1.grid)

\* the fields before the constructor has run
NoGrid ==
    NewGrid([vertices |-> None, iverts |-> None, xcenters |-> None,
             ycenters |-> None, top |-> None, botm |-> None, ncpl |-> NoNcpl,
             xoff |-> 0, yoff |-> 0, angrot |-> 0, iac |-> None, ja |-> None])

----------------------------------------------------------------------------
(* The cell table. *)

\* lines 309-312: ix_adj once the loop has reached ix.  ncpl[0] is added at
\* every ix > 0 that is a multiple of it (for ncpl[0] = 0 what is added is 0)
ix_adj(g, ix) ==
    IF Val(ncpl(g))[1] = 0 THEN 0
    ELSE Val(ncpl(g))[1] * Cardinality({j \in 1..ix : j % Val(ncpl(g))[1] = 0})

\* lines 313-320: the record of node ix, read at index i of the arrays
c2drec(g, ix, i) ==
    <<ix, Val(g._xc)[i + 1], Val(g._yc)[i + 1], Len(Val(g._iverts)[i + 1])>>
        \o Val(g._iverts)[i + 1]

\* The cell2d property.  ncenters / nnodes is a numpy float, and % 0 of it
\* is nan, which a condition takes as true: is_layered is set whenever
\* ncenters differs from nnodes.
cell2d(g) ==
    IF ~is_valid(g) THEN Return(None, g)
    ELSE IF ncpl(g) = None THEN Raise("TypeError", g)
    ELSE IF \E ix \in 0..(Val(nnodes(g)) - 1) :
                LET i == IF Len(Val(g._xc)) # Val(nnodes(g))
                         THEN ix - ix_adj(g, ix) ELSE ix
                IN  i >= Len(Val(g._iverts)) \/ i >= Len(Val(g._xc))
                        \/ i >= Len(Val(g._yc))
    THEN Raise("IndexError", g)
    ELSE Return([n \in 1..Val(nnodes(g)) |->
                    c2drec(g, n - 1,
                           IF Len(Val(g._xc)) # Val(nnodes(g))
                           THEN (n - 1) - ix_adj(g, n - 1) ELSE n - 1)], g)

----------------------------------------------------------------------------
(* Geometry derivation. *)

\* the iverts property: each cell's vertex ids without None entries
\* (a None entry is modelled as -1)
iverts(g) ==
    [c \in 1..Len(Val(g._iverts)) |->
        SelectSeq(Val(g._iverts)[c], LAMBDA ivt : ivt # -1)]

\* Grid._has_ref_coordinates of the base class
has_ref_coordinates(g) == g._xoff # 0 \/ g._yoff # 0 \/ g._angrot # 0

\* Grid.get_coords of the base class for one point: rotation by angrot
\* (0 or 90 degrees) about the origin point, after the shift to it
get_coords(g, x, y) ==
    IF g._angrot = 90
    THEN <<g._xoff - y, g._yoff + x>>
    ELSE <<g._xoff + x, g._yoff + y>>

\* Grid._zcoords of the base class: (zvertices, zcenters), zvertices being
\* the top array stacked on the botm array
zcoords(g) ==
    IF g._top # None /\ g._botm # None
    THEN LET top == Val(g._top)
             botm == Val(g._botm)
         IN  <<Some(<<top, botm>>),
               Some([n \in 1..Len(top) |-> (top[n] + botm[n]) \div 2])>>
    ELSE <<None, None>>

\* vertexdict[ix]: the last record of the vertex list that carries id ix
vertexdict_has(vertices, ix) == \E i \in 1..Len(vertices) : vertices[i][1] = ix

vertexdict(vertices, ix) ==
    LET i == Max({j \in 1..Len(vertices) : vertices[j][1] = ix})
    IN  <<vertices[i][2], vertices[i][3]>>

build_grid_geometry_info(g) ==
    IF g._vertices = None \/ g._iverts = None
    THEN [Raise("TypeError", g) EXCEPT !.built = TRUE]
    ELSE IF \E c \in 1..Len(iverts(g)) : \E i \in 1..Len(iverts(g)[c]) :
                ~vertexdict_has(Val(g._vertices), iverts(g)[c][i])
    THEN [Raise("KeyError", g) EXCEPT !.built = TRUE]
    ELSE IF has_ref_coordinates(g) /\ (g._xc = None \/ g._yc = None)
    THEN [Raise("TypeError", g) EXCEPT !.built = TRUE]
    ELSE
    LET ivs == iverts(g)
        xy(c, i) == vertexdict(Val(g._vertices), ivs[c][i])
        txy(c, i) == IF has_ref_coordinates(g)
                     THEN get_coords(g, xy(c, i)[1], xy(c, i)[2])
                     ELSE xy(c, i)
        xvertices == [c \in 1..Len(ivs) |-> [i \in 1..Len(ivs[c]) |-> txy(c, i)[1]]]
        yvertices == [c \in 1..Len(ivs) |-> [i \in 1..Len(ivs[c]) |-> txy(c, i)[2]]]
        cxy(c) == get_coords(g, Val(g._xc)[c], Val(g._yc)[c])
        xcenters == IF has_ref_coordinates(g)
                    THEN Some([c \in 1..Len(Val(g._xc)) |-> cxy(c)[1]])
                    ELSE g._xc
        ycenters == IF has_ref_coordinates(g)
                    THEN Some([c \in 1..Len(Val(g._yc)) |-> cxy(c)[2]])
                    ELSE g._yc
        z == zcoords(g)
        cache == [k \in {"cellcenters", "xyzgrid"} |->
                    IF k = "cellcenters"
                    THEN CachedData(<<xcenters, ycenters, z[2]>>)
                    ELSE CachedData(<<xvertices, yvertices, z[1]>>)]
    IN  [Return(None, [g EXCEPT !._cache_dict = cache]) EXCEPT !.built = TRUE]

\* The cached accessors.  With _copy_cache set the caller gets a deep copy
\* of the entry's data, otherwise the entry's own lists (live = TRUE).
xyzcellcenters(g) ==
    LET b == IF "cellcenters" \notin DOMAIN g._cache_dict
                \/ g._cache_dict["cellcenters"].out_of_date
             THEN build_grid_geometry_info(g)
             ELSE Return(None, g)
    IN  IF b.raised THEN b
        ELSE [b EXCEPT !.value = b.grid._cache_dict["cellcenters"].data,
                       !.live = ~g._copy_cache]

\* A faulty variant of xyzvertices: it rebuilds only when its entry is
\* missing, and serves an entry marked out of date as it is.
xyzvertices_ignores_flag(g) ==
    LET b == IF "xyzgrid" \notin DOMAIN g._cache_dict
             THEN build_grid_geometry_info(g)
             ELSE Return(None, g)
    IN  IF b.raised THEN b
        ELSE [b EXCEPT !.value = b.grid._cache_dict["xyzgrid"].data,
                       !.live = ~g._copy_cache]

xyzvertices(g) ==
    LET b == IF "xyzgrid" \notin DOMAIN g._cache_dict
                \/ g._cache_dict["xyzgrid"].out_of_date
             THEN build_grid_geometry_info(g)
             ELSE Return(None, g)
    IN  IF b.raised THEN b
        ELSE [b EXCEPT !.value = b.grid._cache_dict["xyzgrid"].data,
                       !.live = ~g._copy_cache]

\* cell_vert of get_cell_vertices: list(zip(xv[cellid], yv[cellid]))
zip_xy(xs, ys) == [i \in 1..Min({Len(xs), Len(ys)}) |-> <<xs[i], ys[i]>>]

extent(g) ==
    LET g1 == [g EXCEPT !._copy_cache = FALSE]
        r == xyzvertices(g1)
        xv == r.value[1]
        yv == r.value[2]
        xs == Range(Flatten(xv))
        ys == Range(Flatten(yv))
        g2 == [r.grid EXCEPT !._copy_cache = TRUE]
    IN  IF r.raised THEN r
        ELSE IF Len(xv) = 0
        THEN [Raise("ValueError", r.grid) EXCEPT !.built = r.built]
        ELSE IF xs = {}
        THEN [Raise("ValueError", g2) EXCEPT !.built = r.built]
        ELSE [Return(<<Min(xs), Max(xs), Min(ys), Max(ys)>>, g2)
                EXCEPT !.built = r.built]

\* A variant of cell_lines that starts at vertex 0 and closes the cell with
\* its last segment, kept to show that the properties below tell it from
\* the code.
cell_lines_closing_last(xgrid, ygrid, c) ==
    LET m == Len(xgrid[c])
        next(i) == IF i = m THEN 1 ELSE i + 1
    IN  [i \in 1..m |-> << <<xgrid[c][i], ygrid[c][i]>>,
                           <<xgrid[c][next(i)], ygrid[c][next(i)]>> >>]

\* the segments grid_lines emits for cell c (1-based) of xgrid, ygrid: ix runs
\* over the cell's vertices and ix - 1 wraps to the last vertex for ix = 0
cell_lines(xgrid, ygrid, c) ==
    LET m == Len(xgrid[c])
        prev(i) == IF i = 1 THEN m ELSE i - 1
    IN  [i \in 1..m |-> << <<xgrid[c][prev(i)], ygrid[c][prev(i)]>>,
                           <<xgrid[c][i], ygrid[c][i]>> >>]

RECURSIVE cells_lines(_, _, _, _)
cells_lines(xgrid, ygrid, first, count) ==
    IF count = 0 THEN << >>
    ELSE cell_lines(xgrid, ygrid, first) \o
         cells_lines(xgrid, ygrid, first + 1, count - 1)

grid_lines(g) ==
    LET g1 == [g EXCEPT !._copy_cache = FALSE]
        r == xyzvertices(g1)
        xgrid == r.value[1]
        ygrid == r.value[2]
        n == Val(ncpl(r.grid))
        g2 == [r.grid EXCEPT !._copy_cache = TRUE]
        fail(exc) == [Raise(exc, r.grid) EXCEPT !.built = r.built]
    IN  IF r.raised THEN r
        ELSE IF gvbl_raises(r.grid) THEN fail("IndexError")
        ELSE IF grid_varies_by_layer(r.grid)
        THEN IF SumSeq(n) > Len(xgrid) THEN fail("IndexError")
             ELSE [Return([kind |-> "dict",
                           lines |-> [ilay \in 1..Len(n) |->
                               cells_lines(xgrid, ygrid,
                                           SumFirst(n, ilay - 1) + 1, n[ilay])]],
                          g2) EXCEPT !.built = r.built]
        ELSE IF ncpl(r.grid) = None THEN fail("TypeError")
        ELSE IF n = << >> THEN fail("IndexError")
        ELSE IF n[1] > Len(xgrid) THEN fail("IndexError")
        ELSE [Return([kind |-> "list",
                      lines |-> <<cells_lines(xgrid, ygrid, 1, n[1])>>],
                     g2) EXCEPT !.built = r.built]

\* cellid >= 0; Python's negative indices are not offered
get_cell_vertices(g, cellid) ==
    LET g1 == [g EXCEPT !._copy_cache = FALSE]
        r == xyzvertices(g1)
        xv == r.value[1]
        yv == r.value[2]
        g2 == [r.grid EXCEPT !._copy_cache = TRUE]
    IN  IF r.raised THEN r
        ELSE IF cellid >= Len(xv)
        THEN [Raise("IndexError", r.grid) EXCEPT !.built = r.built]
        ELSE [Return(zip_xy(xv[cellid + 1], yv[cellid + 1]), g2)
                EXCEPT !.built = r.built]

\* xs * k of a Python list
Repeat(xs, k) == Flatten([i \in 1..k |-> xs])

\* lines 534-538, r being the outcome of the xyzvertices reads: xv and yv
\* are the lists read, and `*=` extends them where they are.  Read with
\* _copy_cache cleared they are the lists of the cache entry itself.
cross_section_of(r) ==
    IF r.raised THEN r
    ELSE IF ncpl(r.grid) = None
    THEN [Raise("TypeError", r.grid) EXCEPT !.built = r.built]
    ELSE IF Val(ncpl(r.grid)) = << >>
    THEN [Raise("IndexError", r.grid) EXCEPT !.built = r.built]
    ELSE IF Len(r.value[1]) # Val(ncpl(r.grid))[1]
    THEN [r EXCEPT !.value = <<r.value[1], r.value[2]>>]
    ELSE [r EXCEPT
            !.value = <<Repeat(r.value[1], Val(nlay(r.grid))),
                        Repeat(r.value[2], Val(nlay(r.grid)))>>,
            !.grid = IF r.live
                     THEN [r.grid EXCEPT !._cache_dict["xyzgrid"].data =
                                <<Repeat(r.value[1], Val(nlay(r.grid))),
                                  Repeat(r.value[2], Val(nlay(r.grid))),
                                  r.value[3]>>]
                     ELSE r.grid]

cross_section_vertices(g) == cross_section_of(xyzvertices(g))

\* Path(get_cell_vertices(nn)) for cell c (1-based) of a fresh xyzgrid
\* entry: the path is modelled by the vertices it is made from
cell_path(xyz, c) == zip_xy(xyz[1][c], xyz[2][c])

\* lines 685-689: ilay when the loop files cell nn; it has been raised by
\* one at every cell number up to nn that is a value of cumsum(ncpl)
ilay_of(n, nn) ==
    Cardinality({j \in 0..nn : \E k \in 1..Len(n) : SumFirst(n, k) = j})

\* lines 683-694: the mapping built over the first `count` cells
polygons_dict(xyz, n, count) ==
    [kind |-> "dict",
     map |-> [k \in {ilay_of(n, nn) : nn \in 0..(count - 1)} |->
                [i \in 1..Cardinality({nn \in 0..(count - 1) :
                                            ilay_of(n, nn) = k}) |->
                    cell_path(xyz,
                        1 + CHOOSE nn \in 0..(count - 1) :
                            /\ ilay_of(n, nn) = k
                            /\ Cardinality({m \in 0..(nn - 1) :
                                    ilay_of(n, m) = k}) = i - 1)]]]

\* lines 681-701, on the grid g whose xyzgrid entry is fresh.  Every path
\* is made by get_cell_vertices, which clears _copy_cache and sets it again
\* unless the cell number is past the last cell; the mapping is filled in
\* place, so that the cells filed before an error stay in _polygons.
build_polygons(g, built) ==
    IF g._polygons # None
    THEN [Return(Val(g._polygons), g) EXCEPT !.built = built]
    ELSE IF gvbl_raises(g)
    THEN [Raise("IndexError", g) EXCEPT !.built = built]
    ELSE IF grid_varies_by_layer(g)
    THEN IF Val(nnodes(g)) > Len(g._cache_dict["xyzgrid"].data[1])
         THEN [Raise("IndexError",
                     [g EXCEPT !._copy_cache = FALSE,
                               !._polygons = Some(polygons_dict(
                                    g._cache_dict["xyzgrid"].data,
                                    Val(ncpl(g)),
                                    Len(g._cache_dict["xyzgrid"].data[1])))])
                EXCEPT !.built = built]
         ELSE [Return(polygons_dict(g._cache_dict["xyzgrid"].data,
                                    Val(ncpl(g)), Val(nnodes(g))),
                      [g EXCEPT !._copy_cache =
                                    IF Val(nnodes(g)) = 0 THEN @ ELSE TRUE,
                                !._polygons = Some(polygons_dict(
                                    g._cache_dict["xyzgrid"].data,
                                    Val(ncpl(g)), Val(nnodes(g))))])
                EXCEPT !.built = built]
    ELSE IF ncpl(g) = None
    THEN [Raise("TypeError", g) EXCEPT !.built = built]
    ELSE IF Val(ncpl(g))[1] > Len(g._cache_dict["xyzgrid"].data[1])
    THEN [Raise("IndexError", [g EXCEPT !._copy_cache = FALSE])
            EXCEPT !.built = built]
    ELSE [Return([kind |-> "list",
                  map |-> <<[c \in 1..Val(ncpl(g))[1] |->
                                cell_path(g._cache_dict["xyzgrid"].data, c)]>>],
                 [g EXCEPT !._copy_cache =
                                IF Val(ncpl(g))[1] = 0 THEN @ ELSE TRUE,
                           !._polygons = Some(
                                [kind |-> "list",
                                 map |-> <<[c \in 1..Val(ncpl(g))[1] |->
                                    cell_path(g._cache_dict["xyzgrid"].data,
                                              c)]>>])])
            EXCEPT !.built = built]

\* lines 674-679, r being the outcome of the xyzvertices read made when the
\* xyzgrid entry is missing or out of date: the memoised polygons are
\* dropped after that read, and only then
polygons_after(r) ==
    IF r.raised THEN r
    ELSE build_polygons([r.grid EXCEPT !._polygons = None], r.built)

map_polygons(g) ==
    IF "xyzgrid" \notin DOMAIN g._cache_dict
            \/ g._cache_dict["xyzgrid"].out_of_date
    THEN polygons_after(xyzvertices(g))
    ELSE build_polygons(g, FALSE)

----------------------------------------------------------------------------
(* Spatial queries. *)

\* utils.geometry.is_clockwise: the sum over the ring's edges of
\* (x2 - x1) * (y2 + y1) is positive
is_clockwise(xa, ya) ==
    LET m == Len(xa)
        nxt(i) == IF i = m THEN 1 ELSE i + 1
        RECURSIVE edge_sum(_)
        edge_sum(i) ==
            IF i = 0 THEN 0
            ELSE edge_sum(i - 1) + (xa[nxt(i)] - xa[i]) * (ya[nxt(i)] + ya[i])
    IN  edge_sum(m) > 0

\* Path(...).contains_point((x, y), radius) for a convex polygon and a radius
\* of 1e-9 times sign: the polygon grows by the radius when the sign matches
\* the winding (negative for clockwise), which takes in the boundary, and
\* shrinks otherwise, which leaves the interior
contains_point(xa, ya, x, y, sign) ==
    LET m == Len(xa)
        nxt(i) == IF i = m THEN 1 ELSE i + 1
        cross(i) == (xa[nxt(i)] - xa[i]) * (y - ya[i])
                    - (ya[nxt(i)] - ya[i]) * (x - xa[i])
        cw == is_clockwise(xa, ya)
        grown == (cw /\ sign < 0) \/ (~cw /\ sign > 0)
        side(i) == IF cw THEN 0 - cross(i) ELSE cross(i)
    IN  /\ m >= 3
        /\ \A i \in 1..m : IF grown THEN side(i) >= 0 ELSE side(i) > 0

\* lines 886-901: the bounding-box screen, then the test with the radius
\* signed by the winding
cell_contains(xa, ya, x, y) ==
    /\ \E i \in 1..Len(xa) : x <= xa[i]
    /\ \E i \in 1..Len(xa) : x >= xa[i]
    /\ \E i \in 1..Len(ya) : y <= ya[i]
    /\ \E i \in 1..Len(ya) : y >= ya[i]
    /\ contains_point(xa, ya, x, y, IF is_clockwise(xa, ya) THEN -1 ELSE 1)

\* outcome of a part of the scan: a node id returned, an exception raised,
\* or neither (the scan goes on)
Found(node) == [kind |-> "return", node |-> node, exc |-> ""]

Thrown(exc) == [kind |-> "raise", node |-> 0, exc |-> exc]

GoOn == [kind |-> "next", node |-> 0, exc |-> ""]

\* lines 905-909: the walk down the layers, icell2d (0-based) being the loop
\* variable as the previous layer left it
RECURSIVE layer_walk(_, _, _, _, _)
layer_walk(g, zv, z, lay, icell2d) ==
    IF lay >= Val(nlay(g)) THEN GoOn
    ELSE LET node == IF lay # 0 /\ ~grid_varies_by_layer(g)
                     THEN icell2d + Val(ncpl(g))[lay]
                     ELSE icell2d
         IN  IF zv = None THEN Thrown("TypeError")
             ELSE IF node >= Len(Val(zv)[1]) THEN Thrown("IndexError")
             ELSE IF Val(zv)[1][node + 1] >= z /\ z >= Val(zv)[2][node + 1]
             THEN Found(node)
             ELSE layer_walk(g, zv, z, lay + 1, node)

\* A faulty variant of the scan: it looks at the cells from the last to the
\* first.
RECURSIVE cell_scan_backwards(_, _, _, _, _, _, _)
cell_scan_backwards(g, xyz, x, y, z, icell2d, n) ==
    IF icell2d >= n THEN GoOn
    ELSE IF n - 1 >= Len(xyz[1]) THEN Thrown("IndexError")
    ELSE LET hit == cell_contains(xyz[1][n], xyz[2][n], x, y)
             w == IF ~hit THEN GoOn
                  ELSE IF z = None THEN Found(n - 1)
                  ELSE layer_walk(g, xyz[3], Val(z), 0, n - 1)
         IN  IF w.kind = "next"
             THEN cell_scan_backwards(g, xyz, x, y, z, icell2d, n - 1)
             ELSE w

\* lines 885-909: the scan of cells icell2d .. n - 1
RECURSIVE cell_scan(_, _, _, _, _, _, _)
cell_scan(g, xyz, x, y, z, icell2d, n) ==
    IF icell2d >= n THEN GoOn
    ELSE IF icell2d >= Len(xyz[1]) THEN Thrown("IndexError")
    ELSE LET hit == cell_contains(xyz[1][icell2d + 1], xyz[2][icell2d + 1], x, y)
             w == IF ~hit THEN GoOn
                  ELSE IF z = None THEN Found(icell2d)
                  ELSE layer_walk(g, xyz[3], Val(z), 0, icell2d)
         IN  IF w.kind = "next"
             THEN cell_scan(g, xyz, x, y, z, icell2d + 1, n)
             ELSE w

NaN == [nan |-> TRUE, id |-> 0]

CellId(n) == [nan |-> FALSE, id |-> n]

\* lines 911-915: what intersect does once the scan has ended with s
scan_outcome(r, s, forgive) ==
    IF s.kind = "return"
    THEN [Return(CellId(s.node), r.grid) EXCEPT !.built = r.built]
    ELSE IF s.kind = "raise"
    THEN [Raise(s.exc, r.grid) EXCEPT !.built = r.built]
    ELSE IF forgive
    THEN [Return(NaN, r.grid) EXCEPT !.built = r.built]
    ELSE [Raise("Exception", r.grid) EXCEPT !.built = r.built]

\* lines 880-915: intersect from the point p and the outcome r of the read
\* of xyzvertices
intersect_at(r, p, z, forgive) ==
    IF r.raised THEN r
    ELSE IF gvbl_raises(r.grid)
    THEN [Raise("IndexError", r.grid) EXCEPT !.built = r.built]
    ELSE IF ~grid_varies_by_layer(r.grid) /\ ncpl(r.grid) = None
    THEN [Raise("TypeError", r.grid) EXCEPT !.built = r.built]
    ELSE IF ~grid_varies_by_layer(r.grid) /\ Val(ncpl(r.grid)) = << >>
    THEN [Raise("IndexError", r.grid) EXCEPT !.built = r.built]
    ELSE scan_outcome(r,
                      cell_scan(r.grid, r.value, p[1], p[2], z, 0,
                                IF grid_varies_by_layer(r.grid)
                                THEN Val(nnodes(r.grid))
                                ELSE Val(ncpl(r.grid))[1]),
                      forgive)

intersect(g, x, y, z, local, forgive) ==
    intersect_at(xyzvertices(g),
                 IF local THEN get_coords(g, x, y) ELSE <<x, y>>,
                 z, forgive)

----------------------------------------------------------------------------
(* Connectivity. *)

\* _ja[lo:hi] of Python (0-based, hi exclusive, clipped to the list)
Slice(s, lo, hi) ==
    LET h == IF hi > Len(s) THEN Len(s) ELSE hi
    IN  IF lo >= h THEN << >> ELSE [i \in 1..(h - lo) |-> s[lo + i]]

\* lines 742-747: idx0 is set once, before the loop, and idx1 = idx0 + ia
\* for every node
build_neighbors(iac, ja) ==
    LET idx0 == 0
    IN  [node \in 1..Len(iac) |-> Slice(ja, idx0 + 1, idx0 + iac[node])]

\* neighbors(node, method="iac", reset): nodearg is None or <<node>>.  The
\* loop variable of lines 744-746 is named node too: after a build over a
\* non-empty iac the name holds the last node id.
neighbors(g, nodearg, reset) ==
    LET rebuild == g._neighbors = None \/ reset
    IN  IF rebuild /\ (g._iac = None \/ g._ja = None)
        THEN Raise("TypeError", g)
        ELSE
        LET nb == IF rebuild
                  THEN Some(build_neighbors(Val(g._iac), Val(g._ja)))
                  ELSE g._neighbors
            g1 == [g EXCEPT !._neighbors = nb]
            node == IF rebuild /\ Len(Val(g._iac)) > 0
                    THEN Some(Len(Val(g._iac)) - 1)
                    ELSE nodearg
        IN  IF node = None THEN Return([kind |-> "dict", map |-> Val(nb)], g1)
            ELSE IF Val(node) >= Len(Val(nb)) THEN Raise("KeyError", g1)
            ELSE Return([kind |-> "list", map |-> <<Val(nb)[Val(node) + 1]>>], g1)

----------------------------------------------------------------------------
(* Vertex clean-up. *)

\* keys of vset in insertion order: the distinct (x, y) of the vertex list,
\* in order of first appearance
RECURSIVE vset_keys(_)
vset_keys(vertices) ==
    IF vertices = << >> THEN << >>
    ELSE LET before == vset_keys(SubSeq(vertices, 1, Len(vertices) - 1))
             rec == vertices[Len(vertices)]
             vert == <<rec[2], rec[3]>>
         IN  IF \E i \in 1..Len(before) : before[i] = vert
             THEN before ELSE Append(before, vert)

\* ivert_remap[iv]: the count of the last key whose id set holds iv
ivert_remap_has(vertices, iv) == \E i \in 1..Len(vertices) : vertices[i][1] = iv

\* A faulty variant of ivert_remap: every vertex id stays as it is.
ivert_remap_identity(vertices, iv) == iv

ivert_remap(vertices, iv) ==
    LET keys == vset_keys(vertices)
        holds(k) == \E i \in 1..Len(vertices) :
                        /\ vertices[i][1] = iv
                        /\ <<vertices[i][2], vertices[i][3]>> = keys[k]
    IN  Max({k \in 1..Len(keys) : holds(k)}) - 1

\* Scaling.  The arrays are numpy arrays, so array * factor scales every
\* entry.  scaled_not is a faulty variant that leaves the entries as they
\* are.
scaled_not(array, factor) == array

scaled(array, factor) == [i \in 1..Len(array) |-> array[i] * factor]

\* A faulty variant of new_grid, which marks the cache entries of the grid
\* called out of date.
new_grid_invalidating(made, g) ==
    IF made.raised THEN Raise(made.exc, g)
    ELSE Return(Some(made.grid),
                [g EXCEPT !._cache_dict = require_cache_updates(@)])

\* the grid a method hands back when the constructor call it ends with has
\* had the outcome made
new_grid(made, g) ==
    IF made.raised THEN Raise(made.exc, g) ELSE Return(Some(made.grid), g)

convert_grid(g, factor) ==
    IF ~is_complete(g) THEN Raise("AssertionError", g)
    ELSE IF g._vertices = None \/ g._xc = None \/ g._yc = None
    THEN Raise("TypeError", g)
    ELSE new_grid(UnstructuredGrid(
             [vertices |-> Some([i \in 1..Len(Val(g._vertices)) |->
                                   <<Val(g._vertices)[i][1],
                                     Val(g._vertices)[i][2] * factor,
                                     Val(g._vertices)[i][3] * factor>>]),
              iverts |-> g._iverts,
              xcenters |-> Some(scaled(Val(g._xc), factor)),
              ycenters |-> Some(scaled(Val(g._yc), factor)),
              top |-> Some(scaled(Val(g._top), factor)),
              botm |-> Some(scaled(Val(g._botm), factor)),
              ncpl |-> NoNcpl,
              xoff |-> g._xoff * factor, yoff |-> g._yoff * factor,
              angrot |-> g._angrot, iac |-> None, ja |-> None]), g)

clean_iverts(g, inplace) ==
    IF ~is_valid(g) THEN Return(None, g)
    ELSE
    LET old == Val(g._vertices)
        keys == vset_keys(old)
        vertices == [k \in 1..Len(keys) |-> <<k - 1, keys[k][1], keys[k][2]>>]
        ivs == iverts(g)
        missing == \E c \in 1..Len(ivs) : \E i \in 1..Len(ivs[c]) :
                       ~ivert_remap_has(old, ivs[c][i])
        new_iverts == [c \in 1..Len(ivs) |->
                          [i \in 1..Len(ivs[c]) |-> ivert_remap(old, ivs[c][i])]]
    IN  IF missing THEN Raise("KeyError", g)
        ELSE IF inplace
        THEN Return(None, [g EXCEPT !._vertices = Some(vertices),
                                    !._iverts = Some(new_iverts),
                                    !._cache_dict = require_cache_updates(@)])
        ELSE LET made == UnstructuredGrid(
                     [vertices |-> Some(vertices), iverts |-> Some(new_iverts),
                      xcenters |-> g._xc, ycenters |-> g._yc,
                      top |-> g._top, botm |-> g._botm,
                      ncpl |-> IF g._ncpl = None THEN NoNcpl
                               ELSE [kind |-> "ndarray", ndim |-> 1,
                                     data |-> Val(g._ncpl)],
                      xoff |-> g._xoff, yoff |-> g._yoff, angrot |-> g._angrot,
                      iac |-> g._iac, ja |-> g._ja])
             IN  IF made.raised THEN Raise(made.exc, g)
                 ELSE Return(Some(made.grid), g)

----------------------------------------------------------------------------
(* Importing.  A file is the sequence of its lines and a line, once split,  *)
(* the sequence of its tokens; a token is a string.  The numbers written in *)
(* the files offered are the numerals below.                                *)

Numerals == <<"0", "1", "2", "3", "4", "5", "6">>

IsNumeral(tok) == \E n \in 1..Len(Numerals) : Numerals[n] = tok

\* int(tok) and float(tok) of a numeral; of any other token they raise
\* ValueError
int(tok) == (CHOOSE n \in 1..Len(Numerals) : Numerals[n] = tok) - 1

\* f.readline().split() for the i-th line read: past the end of the file
\* readline gives the empty string
readline(file, i) == IF i <= Len(file) THEN file[i] ELSE << >>

\* the constructor call of an importer: what is not passed has its default
ImportArgs(verts, ivs, xc, yc, top, botm, counts) ==
    [vertices |-> Some(verts), iverts |-> Some(ivs),
     xcenters |-> Some(xc), ycenters |-> Some(yc),
     top |-> top, botm |-> botm,
     ncpl |-> [kind |-> "ndarray", ndim |-> 1, data |-> counts],
     xoff |-> 0, yoff |-> 0, angrot |-> 0, iac |-> None, ja |-> None]

\* element i of a Python sequence of n elements, as index into its model:
\* a negative i counts from the end
At(i, n) == (i % n) + 1

\* lines 1167-1173: can the vertex line ll be read
argus_vertex_ok(ll) ==
    Len(ll) >= 4 /\ \A k \in 2..4 : IsNumeral(ll[k])

\* lines 1170-1173: the row of verts a vertex line fills
argus_vertex(ll) == <<int(ll[2]) - 1, int(ll[3]), int(ll[4])>>

\* lines 1180-1184: the vertex list of a triangle line, closed when its
\* first and last ids differ
argus_ivlist(ll) ==
    LET ids == [k \in 1..(Len(Slice(ll, 2, 5))) |-> int(ll[k + 2]) - 1]
    IN  IF ids[1] # ids[Len(ids)] THEN Append(ids, ids[1]) ELSE ids

\* get_polygon_centroid of flopy.utils.geometry, for the closed triangle
\* ivlist of rows of verts: the mean of its three corners (the corners
\* offered have coordinates whose sums are multiples of 3)
get_polygon_centroid(verts, ivlist) ==
    <<(verts[At(ivlist[1], Len(verts))][2] + verts[At(ivlist[2], Len(verts))][2]
        + verts[At(ivlist[3], Len(verts))][2]) \div 3,
      (verts[At(ivlist[1], Len(verts))][3] + verts[At(ivlist[2], Len(verts))][3]
        + verts[At(ivlist[3], Len(verts))][3]) \div 3>>

\* what reading the triangle line ll raises, "" if nothing
argus_cell_exc(ll, nverts) ==
    IF \E k \in 1..Len(Slice(ll, 2, 5)) : ~IsNumeral(ll[k + 2])
    THEN "ValueError"
    ELSE IF Slice(ll, 2, 5) = << >> THEN "IndexError"
    ELSE IF \E k \in 1..Len(Slice(ll, 2, 5)) :
                int(ll[k + 2]) - 1 >= nverts \/ int(ll[k + 2]) - 1 < -nverts
    THEN "IndexError"
    ELSE ""

\* lines 1176-1189, given the rows of verts: the cells are read from line
\* first + 1 on
argus_cells(file, first, ncells, verts, n_lay) ==
    IF \E k \in 1..ncells :
            argus_cell_exc(readline(file, first + k), Len(verts)) # ""
    THEN Raise(argus_cell_exc(readline(file, first +
                    Min({k \in 1..ncells :
                            argus_cell_exc(readline(file, first + k),
                                           Len(verts)) # ""})),
                    Len(verts)), NoGrid)
    ELSE UnstructuredGrid(ImportArgs(
            verts,
            [k \in 1..ncells |-> argus_ivlist(readline(file, first + k))],
            [k \in 1..ncells |->
                get_polygon_centroid(verts,
                    argus_ivlist(readline(file, first + k)))[1]],
            [k \in 1..ncells |->
                get_polygon_centroid(verts,
                    argus_ivlist(readline(file, first + k)))[2]],
            None, None,
            [k \in 1..n_lay |-> ncells]))

\* lines 1166-1173, given the two counts of the first line: the vertex
\* lines are read from line first + 1 on
argus_vertices(file, first, ncells, nverts, n_lay) ==
    IF \E k \in 1..nverts : ~argus_vertex_ok(readline(file, first + k))
    THEN Raise("ValueError", NoGrid)
    ELSE argus_cells(file, first + nverts, ncells,
                     [k \in 1..nverts |->
                        argus_vertex(readline(file, first + k))],
                     n_lay)

\* lines 1156-1161: the first line gives the counts, and the vertex lines
\* are taken to follow line `first`
argus_read(file, first, n_lay) ==
    IF Len(readline(file, 1)) < 2
            \/ ~IsNumeral(readline(file, 1)[1])
            \/ ~IsNumeral(readline(file, 1)[2])
    THEN Raise("ValueError", NoGrid)
    ELSE argus_vertices(file, first, int(file[1][1]), int(file[1][2]), n_lay)

\* A variant that reads the vertex lines right after the first line, kept
\* to show that the properties below tell it from the code.
from_argus_export_no_skip(file, n_lay) == argus_read(file, 1, n_lay)

\* line 1166 reads one line and drops it: the vertex lines follow line 2
from_argus_export(file, n_lay) == argus_read(file, 2, n_lay)

\* str.upper of the words written in the files offered; a token without
\* letters is its own upper case
upper(tok) ==
    CASE tok = "unstructured" -> "UNSTRUCTURED"
      [] tok = "gwf" -> "GWF"
      [] OTHER -> tok

\* lines 1267-1270: split_line for the i-th line read
split_line(file, i) ==
    [k \in 1..Len(readline(file, i)) |-> upper(readline(file, i)[k])]

\* the tokens offered whose first character is "#"
StartsWithHash(tok) == tok \in {"#", "#GSF"}

\* lines 1272-1274: the number of the line taken as header, 0 when a line
\* without tokens is met first (header[0] raises IndexError)
RECURSIVE first_header(_, _)
first_header(file, i) ==
    IF split_line(file, i) = << >> THEN 0
    ELSE IF StartsWithHash(split_line(file, i)[1])
    THEN first_header(file, i + 1)
    ELSE i

\* A variant of the header condition, kept to show that the properties below
\* tell it from the code: of the headers that begin with UNSTRUCTURED and
\* have two tokens it refuses UNSTRUCTURED GWF alone.
header_refused_lenient(header) ==
    \/ Len(header) \notin {1, 2}
    \/ header[1] # "UNSTRUCTURED"
    \/ (Len(header) = 2 /\ header = <<"UNSTRUCTURED", "GWF">>)

\* lines 1275-1277: the condition under which "no header" is raised;
\* `not` binds tighter than `or`
header_refused(header) ==
    \/ ~(Len(header) = 1 /\ header[1] = "UNSTRUCTURED")
    \/ (Len(header) = 2 /\ header = <<"UNSTRUCTURED", "GWF">>)

NoHeader == "ValueError: Invalid GSF file, no header"

CountMismatch == "ValueError: Cell declares vertices but provides"

\* A variant of the count check that lets a line with more indices than it
\* declares pass, kept to show that the properties below tell it from the
\* code.
gsf_cell_exc_at_least(line, nz) ==
    IF Len(line) < 6 THEN "IndexError"
    ELSE IF \E k \in {2, 3, 5, 6} : ~IsNumeral(line[k]) THEN "ValueError"
    ELSE IF int(line[6]) > Len(line) - 6 THEN CountMismatch
    ELSE IF \E k \in 7..Len(line) : ~IsNumeral(line[k]) THEN "ValueError"
    ELSE IF \E k \in 7..Len(line) :
                int(line[k]) - 1 >= nz \/ int(line[k]) - 1 < -nz
    THEN "IndexError"
    ELSE IF Len(line) = 6 THEN "ValueError"
    ELSE ""

\* lines 1299-1315 for one cell line, in the order the code reads it: what
\* it raises, "" if nothing.  nz is the number of elevations known.
gsf_cell_exc(line, nz) ==
    IF Len(line) < 2 THEN "IndexError"
    ELSE IF ~IsNumeral(line[2]) THEN "ValueError"
    ELSE IF Len(line) < 3 THEN "IndexError"
    ELSE IF ~IsNumeral(line[3]) THEN "ValueError"
    ELSE IF Len(line) < 5 THEN "IndexError"
    ELSE IF ~IsNumeral(line[5]) THEN "ValueError"
    ELSE IF Len(line) < 6 THEN "IndexError"
    ELSE IF ~IsNumeral(line[6]) THEN "ValueError"
    ELSE IF int(line[6]) # Len(line) - 6 THEN CountMismatch
    ELSE IF \E k \in 7..Len(line) : ~IsNumeral(line[k]) THEN "ValueError"
    ELSE IF \E k \in 7..Len(line) :
                int(line[k]) - 1 >= nz \/ int(line[k]) - 1 < -nz
    THEN "IndexError"
    ELSE IF Len(line) = 6 THEN "ValueError"
    ELSE ""

\* lines 1313-1316: the vertex ids of a cell line
gsf_verts(line) == [k \in 1..int(line[6]) |-> int(line[k + 6]) - 1]

\* lines 1317-1320: the elevations of the vertices of a cell line
gsf_elevs(line, zverts) ==
    {zverts[At(int(line[k]) - 1, Len(zverts))] : k \in 7..(6 + int(line[6]))}

\* A variant that counts the layer values in the order in which they first
\* appear, kept to show that the properties below tell it from the code.
unique_counts_unsorted(layers) ==
    LET firsts == {i \in 1..Len(layers) :
                        \A j \in 1..(i - 1) : layers[j] # layers[i]}
    IN  [k \in 1..Cardinality(firsts) |->
            Cardinality({i \in 1..Len(layers) :
                layers[i] = layers[CHOOSE f \in firsts :
                                Cardinality({e \in firsts : e < f}) = k - 1]})]

\* line 1329: np.unique(layers, return_counts=True)[1], the number of
\* occurrences of every distinct value, by ascending value
unique_counts(layers) ==
    [k \in 1..Cardinality(Range(layers)) |->
        Cardinality({i \in 1..Len(layers) :
            layers[i] = CHOOSE v \in Range(layers) :
                            Cardinality({w \in Range(layers) : w < v}) = k - 1})]

\* lines 1291-1338, given the vertex rows and elevations: the cell lines
\* are read from line first + 1 on
gsf_cells(file, first, nn, vertices, zverts) ==
    IF \E k \in 1..nn :
            gsf_cell_exc(split_line(file, first + k), Len(zverts)) # ""
    THEN Raise(gsf_cell_exc(split_line(file, first +
                    Min({k \in 1..nn :
                            gsf_cell_exc(split_line(file, first + k),
                                         Len(zverts)) # ""})),
                    Len(zverts)), NoGrid)
    ELSE UnstructuredGrid(ImportArgs(
            vertices,
            [k \in 1..nn |-> gsf_verts(split_line(file, first + k))],
            [k \in 1..nn |-> int(split_line(file, first + k)[2])],
            [k \in 1..nn |-> int(split_line(file, first + k)[3])],
            Some([k \in 1..nn |->
                    Max(gsf_elevs(split_line(file, first + k), zverts))]),
            Some([k \in 1..nn |->
                    Min(gsf_elevs(split_line(file, first + k), zverts))]),
            unique_counts([k \in 1..nn |-> int(split_line(file, first + k)[5])])))

\* lines 1282-1289, given the two counts: the vertex lines are read from
\* line first + 1 on
gsf_vertices(file, first, nn, verts_declared) ==
    IF \E k \in 1..verts_declared :
            \/ Len(split_line(file, first + k)) # 3
            \/ \E t \in 1..3 : ~IsNumeral(split_line(file, first + k)[t])
    THEN Raise("ValueError", NoGrid)
    ELSE gsf_cells(file, first + verts_declared, nn,
            [k \in 1..verts_declared |->
                <<k - 1, int(split_line(file, first + k)[1]),
                  int(split_line(file, first + k)[2])>>],
            [k \in 1..verts_declared |-> int(split_line(file, first + k)[3])])

\* lines 1279-1280: the two count lines after header line h
gsf_counts(file, h) ==
    IF split_line(file, h + 1) = << >> THEN Raise("IndexError", NoGrid)
    ELSE IF ~IsNumeral(split_line(file, h + 1)[1])
    THEN Raise("ValueError", NoGrid)
    ELSE IF split_line(file, h + 2) = << >> THEN Raise("IndexError", NoGrid)
    ELSE IF ~IsNumeral(split_line(file, h + 2)[1])
    THEN Raise("ValueError", NoGrid)
    ELSE gsf_vertices(file, h + 2, int(split_line(file, h + 1)[1]),
                      int(split_line(file, h + 2)[1]))

\* lines 1272-1278, h being the number of the header line
gsf_header(file, h) ==
    IF h = 0 THEN Raise("IndexError", NoGrid)
    ELSE IF header_refused(split_line(file, h)) THEN Raise(NoHeader, NoGrid)
    ELSE gsf_counts(file, h)

from_gridspec(file) == gsf_header(file, first_header(file, 1))

----------------------------------------------------------------------------
(* The calls a client makes. *)

\* which of the four arrays of a valid grid the caller leaves out
Missing == {"none", "vertices", "iverts", "xcenters", "ycenters"}

\* the query points of intersect: inside the left cell, on the edge the two
\* cells share, inside the right cell, and outside both
QueryX == {1, 2, 3, 5}

\* elevations asked of intersect: none, the one the first two layers share,
\* one inside the second layer, one above the grid
QueryZ == {None, Some(2), Some(1), Some(9)}

\* the number of nodes the caller sizes top and botm for
NodesFor(n, a) == IF a.kind \in {"list", "tuple", "ndarray"} /\ a.ndim = 1
                  THEN SumSeq(a.data) ELSE n

MakeArgs(n, miss, elev, a, xoff, conn) ==
    [vertices |-> IF miss = "vertices" THEN None ELSE Some(Vertices),
     iverts |-> IF miss = "iverts" THEN None ELSE Some(IvertsArg(n)),
     xcenters |-> IF miss = "xcenters" THEN None ELSE Some(XcArg(n)),
     ycenters |-> IF miss = "ycenters" THEN None ELSE Some(YcArg(n)),
     top |-> IF elev \in {"top", "both"}
             THEN Some(TopArg(NodesFor(n, a), n)) ELSE None,
     botm |-> IF elev \in {"botm", "both"}
              THEN Some(BotmArg(NodesFor(n, a), n)) ELSE None,
     ncpl |-> a,
     xoff |-> xoff, yoff |-> 0, angrot |-> 0,
     iac |-> conn[1], ja |-> conn[2]]

NoConn == <<None, None>>

\* which elevation arrays the caller passes
Elevations == {"none", "top", "botm", "both"}

\* the constructor calls offered to a grid that is then used: all four arrays
\* are passed, without elevations, or with both and an x offset of 2
GridArgs ==
    {MakeArgs(n, "none", ex[1], a, ex[2], NoConn) :
        n \in 1..MaxCells, a \in NcplArgs,
        ex \in {<<"none", 0>>, <<"both", 2>>}}

\* the constructor calls offered when construction alone is looked at: any
\* one array may be missing, with any elevation arrays
AnyArgs ==
    {MakeArgs(n, miss, elev, a, 0, NoConn) :
        n \in 1..MaxCells, miss \in Missing, elev \in Elevations, a \in NcplArgs}

NoCall ==
    [op |-> "", args |-> << >>, raised |-> FALSE, exc |-> "", value |-> None,
     built |-> FALSE, live |-> FALSE]

\* the call op(args) with outcome r, made on the grid
Call(op, args, r) ==
    /\ pc = "alive"
    /\ self' = r.grid
    /\ ret' = [op |-> op, args |-> args, raised |-> r.raised, exc |-> r.exc,
               value |-> r.value, built |-> r.built, live |-> r.live]
    /\ UNCHANGED pc

Init ==
    /\ pc = "new"
    /\ self = NoGrid
    /\ ret = NoCall

Construct(Args) ==
    /\ pc = "new"
    /\ \E args \in Args :
        LET r == UnstructuredGrid(args)
        IN  /\ pc' = IF r.raised THEN "failed" ELSE "alive"
            /\ self' = IF r.raised THEN self ELSE r.grid
            /\ ret' = [op |-> "__init__", args |-> args, raised |-> r.raised,
                       exc |-> r.exc, value |-> None, built |-> FALSE,
                       live |-> FALSE]

SetNcpl == \E a \in NcplArgs : Call("set_ncpl", a, set_ncpl(self, a))

CleanIverts ==
    \E inplace \in BOOLEAN :
        Call("clean_iverts", inplace, clean_iverts(self, inplace))

XyzCellCenters == Call("xyzcellcenters", << >>, xyzcellcenters(self))

XyzVertices == Call("xyzvertices", << >>, xyzvertices(self))

Extent == Call("extent", << >>, extent(self))

GridLines == Call("grid_lines", << >>, grid_lines(self))

\* the first cell, and a cell id past the last cell of every grid
GetCellVertices ==
    \E cellid \in {0, MaxCells} :
        Call("get_cell_vertices", cellid, get_cell_vertices(self, cellid))

\* the intersect calls offered: every point, elevation and forgive choice in
\* world coordinates, and every point in local coordinates
Queries ==
    {[x |-> x, y |-> 1, z |-> z, local |-> FALSE, forgive |-> forgive] :
        x \in QueryX, z \in QueryZ, forgive \in BOOLEAN}
    \cup
    {[x |-> x, y |-> 1, z |-> None, local |-> TRUE, forgive |-> FALSE] :
        x \in QueryX}

\* the query q with outcome r, asked of the grid once
Query(q, r) ==
    /\ pc = "alive"
    /\ self' = r.grid
    /\ ret' = [op |-> "intersect", args |-> q, raised |-> r.raised,
               exc |-> r.exc, value |-> r.value, built |-> r.built,
               live |-> r.live]
    /\ pc' = "queried"

\* one query is asked of a grid
Intersect ==
    \E q \in Queries :
        Query(q, intersect(self, q.x, q.y, q.z, q.local, q.forgive))

Next ==
    \/ Construct(GridArgs)
    \/ SetNcpl
    \/ CleanIverts
    \/ XyzCellCenters
    \/ XyzVertices
    \/ Extent
    \/ GridLines
    \/ GetCellVertices

Spec == Init /\ [][Next]_vars

\* Construction alone, with any array left out.
NextConstruct == Construct(AnyArgs)

SpecConstruct == Init /\ [][NextConstruct]_vars

\* Point queries.  The grid queried is one the constructor returned for
\* GridArgs, fresh or with its geometry already read, and as it is or after
\* a set_ncpl call.
QueriedGrids ==
    LET made == {UnstructuredGrid(args).grid :
                    args \in {x \in GridArgs : ~UnstructuredGrid(x).raised}}
        read == made \cup {xyzvertices(g).grid : g \in made}
    IN  read \cup {set_ncpl(g, a).grid : g \in read, a \in NcplArgs}

InitIntersect ==
    /\ pc = "alive"
    /\ self \in QueriedGrids
    /\ ret = NoCall

NextIntersect == Intersect

SpecIntersect == InitIntersect /\ [][NextIntersect]_vars

\* Connectivity queries.  The grid has one 2-D cell shared by n layers, so n
\* nodes, and is constructed with the iac and ja arrays of a connection
\* list over its nodes, or with none.
RECURSIVE SortedSeq(_)
SortedSeq(S) ==
    IF S = {} THEN << >> ELSE <<Min(S)>> \o SortedSeq(S \ {Min(S)})

\* iac and ja of the connection list nbrs: the block of node n is n itself,
\* then its neighbours in ascending order
ConnOf(nbrs) ==
    <<Some([n \in 1..Len(nbrs) |-> 1 + Cardinality(nbrs[n])]),
      Some(Flatten([n \in 1..Len(nbrs) |-> <<n - 1>> \o SortedSeq(nbrs[n])]))>>

ConnLists ==
    UNION {{nbrs \in [1..n -> SUBSET (0..(n - 1))] :
                \A i \in 1..n : (i - 1) \notin nbrs[i]} : n \in 1..MaxNodes}

ConnArgs ==
    {MakeArgs(1, "none", "none",
              [kind |-> "list", ndim |-> 1, data |-> [k \in 1..Len(nbrs) |-> 1]],
              0, ConnOf(nbrs)) : nbrs \in ConnLists}
    \cup {MakeArgs(1, "none", "none", [kind |-> "int", ndim |-> 0, data |-> <<1>>],
                   0, NoConn)}

InitNeighbors ==
    /\ pc = "alive"
    /\ self \in {UnstructuredGrid(args).grid : args \in ConnArgs}
    /\ ret = NoCall

Neighbors ==
    \E nodearg \in {None} \cup {Some(n) : n \in 0..(MaxNodes - 1)},
       reset \in BOOLEAN :
        Call("neighbors", [node |-> nodearg, reset |-> reset],
             neighbors(self, nodearg, reset))

NextNeighbors == Neighbors

SpecNeighbors == InitNeighbors /\ [][NextNeighbors]_vars

\* Clean-up and scaling.  The grid is one the constructor returned for
\* GridArgs, with the vertex list Vertices (two ids at one place) or
\* VerticesDistinct (every vertex at its own place, listed from the highest
\* id to the lowest), and with or without simulation metadata.
VerticesDistinct ==
    <<<<6, 4, 2>>, <<5, 2, 2>>, <<4, 0, 2>>, <<3, 4, 0>>, <<2, 3, 0>>,
      <<1, 2, 0>>, <<0, 0, 0>>>>

NoMetadata == [nodes |-> None, njag |-> None, nper |-> None]

Metadata == [nodes |-> Some(2), njag |-> Some(4), nper |-> Some(1)]

EditArgs ==
    {[args EXCEPT !.vertices = Some(v)] @@ meta :
        args \in GridArgs, v \in {Vertices, VerticesDistinct},
        meta \in {NoMetadata, Metadata}}

InitEdit ==
    /\ pc = "alive"
    /\ self \in {UnstructuredGrid(args).grid :
                    args \in {x \in EditArgs : ~UnstructuredGrid(x).raised}}
    /\ ret = NoCall

\* the factors offered to convert_grid
Factors == {2, 3}

ConvertGrid ==
    \E factor \in Factors :
        Call("convert_grid", factor, convert_grid(self, factor))

NextEdit ==
    \/ CleanIverts
    \/ ConvertGrid
    \/ XyzVertices

SpecEdit == InitEdit /\ [][NextEdit]_vars

\* The cell table.  The grid is one of QueriedGrids; ncpl may be set again.
Cell2d == Call("cell2d", << >>, cell2d(self))

NextTable ==
    \/ Cell2d
    \/ SetNcpl

SpecTable == InitIntersect /\ [][NextTable]_vars

\* Importing.  The numeral of n
Num(n) == Numerals[n + 1]

\* The trimesh files offered: the four corners of the square [0,3]x[0,3]
\* as vertex lines, with ascending or descending ids, 1..MaxCells triangle
\* lines over them and, between the first line and the vertex lines, no
\* line, an empty line or a line of text.
TriVertexLines ==
    {<<<<"N", Num(ids[1]), "0", "0">>, <<"N", Num(ids[2]), "3", "0">>,
       <<"N", Num(ids[3]), "3", "3">>, <<"N", Num(ids[4]), "0", "3">>>> :
        ids \in {<<1, 2, 3, 4>>, <<4, 3, 2, 1>>}}

Triangles == {<<1, 2, 3>>, <<1, 3, 4>>, <<2, 3, 4>>, <<1, 2, 4>>}

TriCellLines ==
    UNION {{[k \in 1..n |->
                <<"E", Num(k), Num(t[k][1]), Num(t[k][2]), Num(t[k][3])>>] :
            t \in [1..n -> Triangles]} : n \in 1..MaxCells}

TriSecondLines == {<< >>, <<<< >>>>, <<<<"#", "nodes">>>>}

TriFiles ==
    {<<<<Num(Len(c)), Num(Len(v))>>>> \o second \o v \o c :
        second \in TriSecondLines, v \in TriVertexLines, c \in TriCellLines}

\* a class method op(args) with outcome r, called where no grid exists
Import(op, args, r) ==
    /\ pc = "new"
    /\ pc' = IF r.raised THEN "failed" ELSE "alive"
    /\ self' = IF r.raised THEN self ELSE r.grid
    /\ ret' = [op |-> op, args |-> args, raised |-> r.raised, exc |-> r.exc,
               value |-> None, built |-> FALSE, live |-> FALSE]

FromArgusExport ==
    \E file \in TriFiles, n_lay \in 1..MaxLay :
        Import("from_argus_export", [file |-> file, nlay |-> n_lay],
               from_argus_export(file, n_lay))

\* The grid specification files offered.  The vertices are the corners of
\* the square [0,3]x[0,3] at elevations 2, 2, 1, 0.  Cell line k is
\* `k xc yc z layer count v1 v2 v3` over one of two triangles, in a layer
\* numbered 1, 3, ..; at most one line of a file declares a count of 2 or
\* 4 for its three indices.
GsfVertexLines ==
    <<<<"0", "0", "2">>, <<"3", "0", "2">>, <<"3", "3", "1">>,
      <<"0", "3", "0">>>>

LayerValues == {2 * k + 1 : k \in 0..(MaxLay - 1)}

GsfCellLine(k, lay, declared) ==
    IF k % 2 = 1
    THEN <<Num(k), "2", "1", "1", Num(lay), Num(declared), "1", "2", "3">>
    ELSE <<Num(k), "1", "2", "1", Num(lay), Num(declared), "1", "3", "4">>

GsfCellLines ==
    UNION {{[k \in 1..n |-> GsfCellLine(k, lays[k],
                                        IF k = bad[1] THEN bad[2] ELSE 3)] :
            lays \in [1..n -> LayerValues],
            bad \in {<<0, 3>>} \cup ((1..n) \X {2, 4})} : n \in 1..MaxLines}

GsfFile(before, header, cells) ==
    before \o <<header, <<Num(Len(cells))>>, <<Num(Len(GsfVertexLines))>>>>
        \o GsfVertexLines \o cells

\* Scenario B of the format's description: two cells in each of two layers
ScenarioB ==
    [k \in 1..4 |-> GsfCellLine(k, IF k <= 2 THEN 1 ELSE 3, 3)]

GsfHeaders ==
    {<<"UNSTRUCTURED">>, <<"unstructured">>, <<"UNSTRUCTURED", "GWF">>,
     <<"unstructured", "gwf">>, <<"UNSTRUCTURED", "GWT">>,
     <<"UNSTRUCTURED", "1">>, <<"STRUCTURED">>, <<"GWF", "UNSTRUCTURED">>,
     <<"UNSTRUCTURED", "GWF", "1">>}

GsfFiles ==
    {GsfFile(<< >>, <<"UNSTRUCTURED">>, cells) : cells \in GsfCellLines}
    \cup {GsfFile(before, header, ScenarioB) :
            before \in {<< >>, <<<<"#", "grid">>>>, <<<< >>>>},
            header \in GsfHeaders}

FromGridspec ==
    \E file \in GsfFiles : Import("from_gridspec", file, from_gridspec(file))

NextImport ==
    \/ FromArgusExport
    \/ FromGridspec

SpecImport == Init /\ [][NextImport]_vars

\* Polygons.  The grids are made with all four arrays and an ncpl of one
\* layer, of layers that share the layout, or of layers that divide the
\* cells, a layer without cells among them; ncpl is set again to one of
\* these, the vertices are cleaned in place, and the derived properties
\* are read (intersect at one point inside the left cell).
LayeredNcpl ==
    {[kind |-> "list", ndim |-> 1, data |-> d] :
        d \in {<<c>> : c \in 1..MaxCells} \cup {<<c, c>> : c \in 1..MaxCells}
              \cup {<<1, 1>>, <<1, 0, 1>>, <<0, 2>>}}

InitPolygons ==
    /\ pc = "alive"
    /\ self \in {UnstructuredGrid(args).grid :
                    args \in {x \in {MakeArgs(n, "none", "none", a, 0, NoConn) :
                                        n \in 1..MaxCells, a \in LayeredNcpl} :
                                ~UnstructuredGrid(x).raised}}
    /\ ret = NoCall

MapPolygons == Call("map_polygons", << >>, map_polygons(self))

SetNcplLayered == \E a \in LayeredNcpl : Call("set_ncpl", a, set_ncpl(self, a))

CleanIvertsInPlace == Call("clean_iverts", TRUE, clean_iverts(self, TRUE))

IntersectInside ==
    Call("intersect", [x |-> 1, y |-> 1],
         intersect(self, 1, 1, None, FALSE, FALSE))

GetFirstCellVertices ==
    Call("get_cell_vertices", 0, get_cell_vertices(self, 0))

NextPolygons ==
    \/ MapPolygons
    \/ SetNcplLayered
    \/ CleanIvertsInPlace
    \/ XyzVertices
    \/ XyzCellCenters
    \/ Extent
    \/ GridLines
    \/ IntersectInside
    \/ GetFirstCellVertices

SpecPolygons == InitPolygons /\ [][NextPolygons]_vars

\* The cache and its callers.  The grids are those of InitPolygons; the
\* vertex lists are read, by xyzvertices and by cross_section_vertices, the
\* cell centers are read, the vertices of the first cell and of a cell past
\* the last are asked for, and a caller that was handed the vertex lists
\* removes the last cell from them.
CrossSectionVertices ==
    Call("cross_section_vertices", << >>, cross_section_vertices(self))

\* xv.pop() and yv.pop() on the lists the last read returned: lists of the
\* caller's own when the read copied, the lists of the cache entry otherwise
PopReturned ==
    /\ pc = "alive"
    /\ ret.op \in {"xyzvertices", "cross_section_vertices"}
    /\ ~ret.raised
    /\ Len(ret.value[1]) > 0
    /\ self' = IF ret.live
               THEN [self EXCEPT !._cache_dict["xyzgrid"].data =
                        <<SubSeq(@[1], 1, Len(@[1]) - 1),
                          SubSeq(@[2], 1, Len(@[2]) - 1), @[3]>>]
               ELSE self
    /\ ret' = [NoCall EXCEPT !.op = "pop"]
    /\ UNCHANGED pc

NextCache ==
    \/ XyzVertices
    \/ XyzCellCenters
    \/ CrossSectionVertices
    \/ GetCellVertices
    \/ PopReturned

SpecCache == InitPolygons /\ [][NextCache]_vars

----------------------------------------------------------------------------
(* Properties of the grid's life cycle (specification Spec). *)

Len_iverts == Len(Val(self._iverts))

\* grid_varies_by_layer, read as true of a valid grid whose ncpl is empty
VariesByLayer ==
    is_valid(self) /\ (Val(ncpl(self)) = << >> \/ Val(ncpl(self))[1] # Len_iverts)

\* C1: whenever iverts is present, len(iverts) equals nnodes on a grid that
\* varies by layer and equals every ncpl[k] on one that does not
IvertsLengthInvariant ==
    (pc = "alive" /\ self._iverts # None) =>
        /\ ncpl(self) # None
        /\ IF VariesByLayer
           THEN Len_iverts = Val(nnodes(self))
           ELSE \A k \in 1..Len(Val(ncpl(self))) : Val(ncpl(self))[k] = Len_iverts

\* C2: is_complete is true iff the grid is valid and both top and botm are
\* present
CompleteIffValidWithElevations ==
    pc = "alive" =>
        (is_complete(self) <=>
            (is_valid(self) /\ self._top # None /\ self._botm # None))

\* the ncpl values set_ncpl must refuse: neither an integer, a list/tuple nor
\* an array, or an array that is not one-dimensional
BadNcpl(a) ==
    \/ a.kind \notin {"int", "list", "tuple", "ndarray"}
    \/ a.kind # "int" /\ a.ndim # 1

OutOfDateFlags(g) ==
    [k \in DOMAIN g._cache_dict |-> g._cache_dict[k].out_of_date]

\* C3: set_ncpl and construction with an ncpl argument raise on every bad
\* ncpl value, and a set_ncpl that raises leaves the stored ncpl and the
\* out-of-date flags of the cache entries as they were
SetNcplRaisesAndKeepsState ==
    [][/\ (ret'.op = "set_ncpl" /\ BadNcpl(ret'.args)) => ret'.raised
       /\ (ret'.op = "__init__" /\ ret'.args.ncpl # NoNcpl
               /\ BadNcpl(ret'.args.ncpl))
            => (ret'.raised /\ pc' = "failed")
       /\ (ret'.op = "set_ncpl" /\ ret'.raised)
            => /\ self'._ncpl = self._ncpl
               /\ OutOfDateFlags(self') = OutOfDateFlags(self)]_vars

\* a set_ncpl that raised on a grid holding an ncpl and cache entries
SetNcplRaisedOnCachedGrid ==
    /\ pc = "alive"
    /\ ret.op = "set_ncpl"
    /\ ret.raised
    /\ ret.exc = "AssertionError"
    /\ self._ncpl # None
    /\ DOMAIN self._cache_dict = {"cellcenters", "xyzgrid"}

\* the data a rebuild of grid g stores under cache_index
FreshData(g, cache_index) ==
    build_grid_geometry_info(g).grid._cache_dict[cache_index].data

\* C4: a successful set_ncpl and an in-place clean_iverts leave every cache
\* entry out of date, and a read that succeeds returns the data derived from
\* the grid's current vertices and iverts
MutationInvalidatesCache ==
    /\ [][((ret'.op = "set_ncpl" /\ ~ret'.raised)
            \/ (ret'.op = "clean_iverts" /\ ret'.args = TRUE /\ ~ret'.raised
                    /\ is_valid(self)))
          => \A k \in DOMAIN self'._cache_dict :
                 self'._cache_dict[k].out_of_date]_vars
    /\ [](/\ (ret.op = "xyzvertices" /\ ~ret.raised)
              => ret.value = FreshData(self, "xyzgrid")
          /\ (ret.op = "xyzcellcenters" /\ ~ret.raised)
              => ret.value = FreshData(self, "cellcenters"))

\* a read that rebuilt the geometry of a grid whose vertices clean_iverts has
\* renumbered
ReadAfterCleanRebuilt ==
    /\ pc = "alive"
    /\ ret.op = "xyzvertices"
    /\ ~ret.raised
    /\ ret.built
    /\ Val(self._vertices) # Vertices

\* C5: a read of xyzcellcenters or xyzvertices rebuilds iff its own cache
\* entry is missing or out of date; a rebuild leaves both entries up to
\* date; a read right after a successful read rebuilds nothing and, for the
\* same accessor, returns equal data
ReadRebuildsIffStale ==
    [][/\ ret'.op = "xyzcellcenters"
            => (ret'.built <=>
                   ("cellcenters" \notin DOMAIN self._cache_dict
                    \/ self._cache_dict["cellcenters"].out_of_date))
       /\ ret'.op = "xyzvertices"
            => (ret'.built <=>
                   ("xyzgrid" \notin DOMAIN self._cache_dict
                    \/ self._cache_dict["xyzgrid"].out_of_date))
       /\ (ret'.op \in {"xyzcellcenters", "xyzvertices"}
                /\ ret'.built /\ ~ret'.raised)
            => /\ DOMAIN self'._cache_dict = {"cellcenters", "xyzgrid"}
               /\ \A k \in DOMAIN self'._cache_dict :
                      ~self'._cache_dict[k].out_of_date
       /\ (ret.op \in {"xyzcellcenters", "xyzvertices"} /\ ~ret.raised
                /\ pc = "alive"
                /\ ret'.op \in {"xyzcellcenters", "xyzvertices"})
            => /\ ~ret'.built
               /\ ~ret'.raised
               /\ ret'.op = ret.op => ret'.value = ret.value]_vars

\* a read served from the cache
ReadServedFromCache ==
    /\ pc = "alive"
    /\ ret.op = "xyzcellcenters"
    /\ ~ret.raised
    /\ ~ret.built

\* C6: once extent, grid_lines or get_cell_vertices has finished, by
\* returning or by raising, _copy_cache is True
CopyCacheRestored ==
    (pc = "alive" /\ ret.op \in {"extent", "grid_lines", "get_cell_vertices"})
        => self._copy_cache = TRUE

----------------------------------------------------------------------------
(* Properties of point queries (specification SpecIntersect).  They speak   *)
(* of the state a query leaves: ret holds its arguments and its outcome.    *)

\* the point asked for, in world coordinates
QueryPoint ==
    IF ret.args.local THEN get_coords(self, ret.args.x, ret.args.y)
    ELSE <<ret.args.x, ret.args.y>>

\* the number of cells the scan covers: nnodes on a grid that varies by
\* layer, ncpl[0] otherwise
ScanCount ==
    IF VariesByLayer THEN Val(nnodes(self)) ELSE Val(ncpl(self))[1]

\* the point lies in the closed convex polygon of cell c (0-based): it is on
\* the same side of every edge, or on the edge
InPolygon(c) ==
    LET xa == FreshData(self, "xyzgrid")[1][c + 1]
        ya == FreshData(self, "xyzgrid")[2][c + 1]
        m == Len(xa)
        nxt(i) == IF i = m THEN 1 ELSE i + 1
        cross(i) == (xa[nxt(i)] - xa[i]) * (QueryPoint[2] - ya[i])
                    - (ya[nxt(i)] - ya[i]) * (QueryPoint[1] - xa[i])
    IN  /\ m >= 3
        /\ (\A i \in 1..m : cross(i) >= 0) \/ (\A i \in 1..m : cross(i) <= 0)

\* the scanned cells whose polygon contains the point
ContainingCells == {c \in 0..(ScanCount - 1) : c < Len_iverts /\ InPolygon(c)}

\* C7: with z omitted, intersect returns the smallest id among the scanned
\* cells whose polygon contains the point, whenever there is one, and
\* returns no other cell id
FirstContainingCell ==
    (pc = "queried" /\ ret.args.z = None) =>
        /\ ContainingCells # {}
            => /\ ~ret.raised
               /\ ret.value = CellId(Min(ContainingCells))
        /\ (~ret.raised /\ ~ret.value.nan) => ContainingCells # {}

\* a query on the edge two cells share, answered with the lower cell id
SharedEdgeGivesLowerId ==
    /\ pc = "queried"
    /\ ret.args.z = None
    /\ Cardinality(ContainingCells) >= 2
    /\ ~ret.raised
    /\ ret.value = CellId(Min(ContainingCells))

\* the node of 2-D cell c in layer k (both 0-based)
NodeOf(c, k) ==
    IF VariesByLayer THEN c ELSE c + SumFirst(Val(ncpl(self)), k)

\* the elevation test of intersect on node n (0-based)
AtElevation(n, z) ==
    /\ n < Len(Val(self._top))
    /\ n < Len(Val(self._botm))
    /\ Val(self._top)[n + 1] >= z
    /\ z >= Val(self._botm)[n + 1]

\* the pairs (cell, layer) that contain the point asked for
ContainingPairs ==
    {ck \in ContainingCells \X (0..(Len(Val(ncpl(self))) - 1)) :
        AtElevation(NodeOf(ck[1], ck[2]), Val(ret.args.z))}

\* the query has an answer: some scanned cell contains the point, and with z
\* given some layer of it holds z
PointInGrid ==
    IF ret.args.z = None THEN ContainingCells # {} ELSE ContainingPairs # {}

\* queries with z are looked at on grids with both elevation arrays
ElevationsKnown ==
    ret.args.z = None \/ (self._top # None /\ self._botm # None)

\* C8: intersect raises exactly when no scanned cell contains the point and
\* forgive is false; with forgive=True it then returns nan; with z omitted
\* and a containing cell it returns a cell id
RaisesIffOutside ==
    (pc = "queried" /\ ElevationsKnown) =>
        /\ ret.raised <=> (~PointInGrid /\ ~ret.args.forgive)
        /\ (~PointInGrid /\ ret.args.forgive) => (~ret.raised /\ ret.value = NaN)
        /\ (ret.args.z = None /\ PointInGrid) => (~ret.raised /\ ~ret.value.nan)

\* the first containing pair: ascending cell id, then ascending layer
FirstPair ==
    CHOOSE ck \in ContainingPairs :
        \A o \in ContainingPairs :
            ck[1] < o[1] \/ (ck[1] = o[1] /\ ck[2] <= o[2])

\* the nodes of layer k (0-based)
LayerRange(k) ==
    SumFirst(Val(ncpl(self)), k)..(SumFirst(Val(ncpl(self)), k + 1) - 1)

\* C9: on a grid that does not vary by layer, intersect(x, y, z) returns the
\* node c + sum(ncpl[0..k-1]) of the first pair (c, k) that contains the
\* point; the node returned passes the elevation test and lies in layer k
FirstLayerAtElevation ==
    (pc = "queried" /\ ret.args.z # None /\ ElevationsKnown /\ ~VariesByLayer) =>
        /\ ContainingPairs # {}
            => /\ ~ret.raised
               /\ ret.value = CellId(NodeOf(FirstPair[1], FirstPair[2]))
               /\ ret.value.id \in LayerRange(FirstPair[2])
        /\ (~ret.raised /\ ~ret.value.nan)
            => /\ ContainingPairs # {}
               /\ AtElevation(ret.value.id, Val(ret.args.z))

----------------------------------------------------------------------------
(* Properties of connectivity queries (specification SpecNeighbors). *)

\* off(n) = iac[0] + ... + iac[n-1]
OffsetOf(n) == SumFirst(Val(self._iac), n)

\* C10: once built, the 'iac' mapping holds for every node n the slice
\* ja[off(n)+1 : off(n)+iac[n]]: the node's own block of ja without the
\* leading self-reference
NeighborsByOffsets ==
    (pc = "alive" /\ self._neighbors # None) =>
        \A n \in 0..(Len(Val(self._iac)) - 1) :
            Val(self._neighbors)[n + 1]
                = Slice(Val(self._ja), OffsetOf(n) + 1,
                        OffsetOf(n) + Val(self._iac)[n + 1])

\* C11: neighbors(node=k, method='iac') returns the mapping's entry of node
\* k and neighbors(node=None, method='iac') returns the whole mapping, on
\* the call that builds the mapping, on cached calls and with reset=True
NeighborsReturnsRequested ==
    (pc = "alive" /\ ret.op = "neighbors" /\ self._iac # None) =>
        IF ret.args.node = None
        THEN /\ ~ret.raised
             /\ ret.value = [kind |-> "dict", map |-> Val(self._neighbors)]
        ELSE Val(ret.args.node) < Len(Val(self._iac))
                => /\ ~ret.raised
                   /\ ret.value
                        = [kind |-> "list",
                           map |-> <<Val(self._neighbors)[Val(ret.args.node) + 1]>>]

----------------------------------------------------------------------------
(* Properties of clean-up and scaling (specification SpecEdit). *)

\* the place of vertex id iv in grid g
PlaceOf(g, iv) == vertexdict(Val(g._vertices), iv)

\* no two entries of the vertex list vs are at one place
DistinctPlaces(vs) ==
    \A i, j \in 1..Len(vs) :
        i # j => <<vs[i][2], vs[i][3]>> # <<vs[j][2], vs[j][3]>>

\* grid new holds the cleaned vertices and iverts of grid old
CleanedFrom(new, old) ==
    /\ \A i \in 1..Len(Val(new._vertices)) : Val(new._vertices)[i][1] = i - 1
    /\ DistinctPlaces(Val(new._vertices))
    /\ Len(iverts(new)) = Len(iverts(old))
    /\ \A c \in 1..Len(iverts(old)) :
        /\ Len(iverts(new)[c]) = Len(iverts(old)[c])
        /\ \A i \in 1..Len(iverts(old)[c]) :
               PlaceOf(new, iverts(new)[c][i]) = PlaceOf(old, iverts(old)[c][i])
    /\ DistinctPlaces(Val(old._vertices))
        => Len(Val(new._vertices)) = Len(Val(old._vertices))

\* C12: when clean_iverts of a valid grid gives its result, in place or as
\* a new grid, the vertex list has pairwise distinct places and ids 0..k-1,
\* every cell's vertex ids resolve to the same places in the same order as
\* before, and a grid without duplicate places keeps its number of vertices
CleanIvertsKeepsPolygons ==
    [][(ret'.op = "clean_iverts" /\ ~ret'.raised /\ is_valid(self))
        => CleanedFrom(IF ret'.args THEN self' ELSE Val(ret'.value), self)]_vars

\* a clean_iverts that returned a new grid with the two ids at one place
\* merged
DuplicatesMerged ==
    /\ pc = "alive"
    /\ ret.op = "clean_iverts"
    /\ ret.args = FALSE
    /\ ~ret.raised
    /\ Len(Val(self._vertices)) = 7
    /\ ~DistinctPlaces(Val(self._vertices))
    /\ Len(Val(Val(ret.value)._vertices)) = 6

\* the attributes clean_iverts is not about
OtherAttributes ==
    {"_xc", "_yc", "_top", "_botm", "_ncpl", "_xoff", "_yoff", "_angrot",
     "_iac", "_ja", "_nodes", "_njag", "_nper"}

\* C13: the grid clean_iverts(inplace=False) returns has every attribute
\* other than vertices and iverts equal to that of the grid it was called
\* on, the simulation metadata passed at construction included
CleanCopyKeepsAttributes ==
    [][(ret'.op = "clean_iverts" /\ ret'.args = FALSE /\ ~ret'.raised
            /\ is_valid(self))
        => \A f \in OtherAttributes : Val(ret'.value)[f] = self[f]]_vars

\* C14: convert_grid and clean_iverts(inplace=False) leave the grid they
\* are called on as it was: its arrays, ncpl, offsets, rotation and the
\* contents and out-of-date flags of its cache
CallerUntouched ==
    [][(ret'.op = "convert_grid"
            \/ (ret'.op = "clean_iverts" /\ ret'.args = FALSE))
        => self' = self]_vars

\* a convert_grid that returned a new grid, called on a grid that holds its
\* geometry in the cache
ConvertedWithCache ==
    /\ pc = "alive"
    /\ ret.op = "convert_grid"
    /\ ~ret.raised
    /\ Val(ret.value)._vertices # self._vertices
    /\ DOMAIN self._cache_dict = {"cellcenters", "xyzgrid"}
    /\ ~self._cache_dict["xyzgrid"].out_of_date

\* grid new is grid old with every coordinate multiplied by factor
ScaledFrom(new, old, factor) ==
    /\ Len(Val(new._vertices)) = Len(Val(old._vertices))
    /\ \A i \in 1..Len(Val(old._vertices)) :
        /\ Val(new._vertices)[i][1] = Val(old._vertices)[i][1]
        /\ Val(new._vertices)[i][2] = Val(old._vertices)[i][2] * factor
        /\ Val(new._vertices)[i][3] = Val(old._vertices)[i][3] * factor
    /\ new._iverts = old._iverts
    /\ \A f \in {"_xc", "_yc", "_top", "_botm"} :
        /\ Len(Val(new[f])) = Len(Val(old[f]))
        /\ \A i \in 1..Len(Val(old[f])) : Val(new[f])[i] = Val(old[f])[i] * factor
    /\ new._xoff = old._xoff * factor
    /\ new._yoff = old._yoff * factor
    /\ new._angrot = old._angrot

----------------------------------------------------------------------------
(* Properties of the cell table (specification SpecTable). *)

\* the index into iverts and the centers that belongs to node n: n itself
\* on a grid that varies by layer, the cell of the first layer otherwise
LayoutIndex(n) ==
    IF VariesByLayer THEN n ELSE n % Val(ncpl(self))[1]

\* C16: cell2d of a valid grid raises nothing and returns nnodes rows, row
\* n being [n, x-center, y-center, vertex count, vertex ids...] of cell n;
\* on a grid that shares one layout across layers the rows of every layer
\* use the centers and vertex lists of the first
Cell2dRows ==
    (pc = "alive" /\ ret.op = "cell2d" /\ is_valid(self)) =>
        /\ ~ret.raised
        /\ Len(ret.value) = Val(nnodes(self))
        /\ \A n \in 0..(Val(nnodes(self)) - 1) :
            /\ LayoutIndex(n) < Len_iverts
            /\ ret.value[n + 1]
                = <<n, Val(self._xc)[LayoutIndex(n) + 1],
                    Val(self._yc)[LayoutIndex(n) + 1],
                    Len(Val(self._iverts)[LayoutIndex(n) + 1])>>
                  \o Val(self._iverts)[LayoutIndex(n) + 1]

----------------------------------------------------------------------------
(* Properties of the importers (specification SpecImport).  ret.args holds  *)
(* the file read.                                                           *)

\* the trimesh file is: a line `ncells nverts`, `skipped` further lines,
\* nverts vertex lines `tag id x y`, ncells triangle lines `tag tag v0 v1 v2`
\* with ids 1..nverts, and nothing else
TriLaidOut(file, skipped) ==
    /\ Len(file[1]) = 2 /\ IsNumeral(file[1][1]) /\ IsNumeral(file[1][2])
    /\ Len(file) = 1 + skipped + int(file[1][2]) + int(file[1][1])
    /\ \A k \in 1..int(file[1][2]) :
        /\ Len(file[1 + skipped + k]) = 4
        /\ ~IsNumeral(file[1 + skipped + k][1])
        /\ \A t \in 2..4 : IsNumeral(file[1 + skipped + k][t])
    /\ \A k \in 1..int(file[1][1]) :
        /\ Len(file[1 + skipped + int(file[1][2]) + k]) = 5
        /\ \A t \in 3..5 :
            /\ IsNumeral(file[1 + skipped + int(file[1][2]) + k][t])
            /\ int(file[1 + skipped + int(file[1][2]) + k][t])
                    \in 1..int(file[1][2])

\* the grid made is the one the file describes, its vertex lines being
\* lines first + 1 .. first + nverts and its triangle lines the next ncells
TriGridOf(file, first, n_lay) ==
    /\ ~ret.raised /\ pc = "alive" /\ is_valid(self)
    /\ Len(Val(self._vertices)) = int(file[1][2])
    /\ \A k \in 1..int(file[1][2]) :
        Val(self._vertices)[k]
            = <<int(file[first + k][2]) - 1, int(file[first + k][3]),
                int(file[first + k][4])>>
    /\ Len_iverts = int(file[1][1])
    /\ \A c \in 1..int(file[1][1]) :
        /\ Len(Val(self._iverts)[c]) = 4
        /\ Val(self._iverts)[c][4] = Val(self._iverts)[c][1]
        /\ \A t \in 1..3 :
            Val(self._iverts)[c][t]
                = int(file[first + int(file[1][2]) + c][t + 2]) - 1
    /\ Val(ncpl(self)) = [k \in 1..n_lay |-> int(file[1][1])]
    /\ Val(nnodes(self)) = n_lay * int(file[1][1])

\* C17 as stated: from_argus_export on a file laid out as the line
\* `ncells nverts`, then nverts vertex lines, then ncells triangle lines,
\* returns a grid with ncells cells whose vertex k comes from the k-th vertex
\* line, whose iverts entries are closed triangles and whose ncpl is nlay
\* copies of ncells
TrimeshImportedAsLaidOut ==
    (ret.op = "from_argus_export" /\ TriLaidOut(ret.args.file, 0)) =>
        TriGridOf(ret.args.file, 1, ret.args.nlay)

\* C17: from_argus_export on a file laid out as the line `ncells nverts`,
\* one line that is read and ignored, then nverts vertex lines, then ncells
\* triangle lines, returns a grid with ncells cells whose vertex k comes
\* from the k-th vertex line, whose iverts entries are closed triangles and
\* whose ncpl is nlay copies of ncells
TrimeshImported ==
    (ret.op = "from_argus_export" /\ TriLaidOut(ret.args.file, 1)) =>
        TriGridOf(ret.args.file, 2, ret.args.nlay)

\* Scenario A: two triangles over four vertices, one layer
ScenarioAImported ==
    /\ ret.op = "from_argus_export" /\ TriLaidOut(ret.args.file, 1)
    /\ ret.args.file[1] = <<"2", "4">> /\ ret.args.nlay = 1
    /\ pc = "alive"
    /\ Val(ncpl(self)) = <<2>> /\ Val(nnodes(self)) = 2

\* the header line of the grid specification file read, its tokens in
\* upper case (no tokens when the file has none)
GsfHeader ==
    IF first_header(ret.args, 1) = 0 THEN << >>
    ELSE split_line(ret.args, first_header(ret.args, 1))

\* the cell lines of the grid specification file read, which follow the
\* header, the two count lines and the vertex lines
GsfCells ==
    [k \in 1..int(ret.args[first_header(ret.args, 1) + 1][1]) |->
        ret.args[first_header(ret.args, 1) + 2
                    + int(ret.args[first_header(ret.args, 1) + 2][1]) + k]]

\* C18: from_gridspec raises the count error, and makes no grid, when some
\* cell line declares a vertex count other than the number of indices on
\* it, whatever the lines after it; when every cell line agrees it does not
\* raise that error
GsfCountsChecked ==
    (ret.op = "from_gridspec" /\ GsfHeader = <<"UNSTRUCTURED">>) =>
        /\ ret.exc = CountMismatch
            <=> \E k \in 1..Len(GsfCells) :
                    int(GsfCells[k][6]) # Len(GsfCells[k]) - 6
        /\ ret.exc = CountMismatch =>
            ret.raised /\ pc = "failed" /\ self = NoGrid

\* a first cell line that declares one index less than it holds, followed
\* by lines that agree, was refused
FewerDeclaredRefused ==
    /\ ret.op = "from_gridspec" /\ GsfHeader = <<"UNSTRUCTURED">>
    /\ Len(GsfCells) >= 2
    /\ GsfCells[1][6] = "2" /\ Len(GsfCells[1]) = 9
    /\ \A k \in 2..Len(GsfCells) : GsfCells[k][6] = "3"
    /\ ret.exc = CountMismatch /\ pc = "failed"

\* the headers of two tokens offered, in upper case
TwoTokenHeaders ==
    {[k \in 1..2 |-> upper(h[k])] : h \in {g \in GsfHeaders : Len(g) = 2}}

\* C19 as stated: the header check accepts some two-token header other
\* than UNSTRUCTURED GWF, rejects UNSTRUCTURED GWF and accepts the single
\* token UNSTRUCTURED
HeaderCheckAsDescribed ==
    (ret.op = "from_gridspec" /\ GsfHeader # << >>) =>
        /\ \E h \in TwoTokenHeaders \ {<<"UNSTRUCTURED", "GWF">>} :
                ~header_refused(h)
        /\ GsfHeader = <<"UNSTRUCTURED", "GWF">> => ret.exc = NoHeader
        /\ GsfHeader = <<"UNSTRUCTURED">> => ret.exc # NoHeader

\* C19: the header check accepts the single token UNSTRUCTURED and nothing
\* else: every header of two tokens is rejected, UNSTRUCTURED GWF as well
\* as the others
HeaderCheckAcceptsOneToken ==
    (ret.op = "from_gridspec" /\ GsfHeader # << >>) =>
        /\ ret.exc = NoHeader <=> GsfHeader # <<"UNSTRUCTURED">>
        /\ Len(GsfHeader) = 2 => ret.raised /\ pc = "failed"

\* a header of UNSTRUCTURED and a tag other than GWF was rejected
OtherTagRejected ==
    /\ ret.op = "from_gridspec"
    /\ GsfHeader = <<"UNSTRUCTURED", "GWT">>
    /\ ret.exc = NoHeader /\ pc = "failed"

\* the layer of cell line k, and the distinct layers of the file
GsfLayer(k) == int(GsfCells[k][5])

GsfLayers == {GsfLayer(k) : k \in 1..Len(GsfCells)}

\* C20: a grid returned by from_gridspec has ncpl[k] equal to the number of
\* cell lines of the k-th smallest layer value, so that ncpl sums to the
\* number of cell lines and to len(iverts); with two or more layer values
\* the grid varies by layer; and from_gridspec never fails the length check
\* of the constructor
NcplCountsLayers ==
    ret.op = "from_gridspec" =>
        /\ ret.exc # "AssertionError"
        /\ pc = "alive" =>
            /\ Len(Val(ncpl(self))) = Cardinality(GsfLayers)
            /\ \A k \in 1..Cardinality(GsfLayers) :
                Val(ncpl(self))[k]
                    = Cardinality({c \in 1..Len(GsfCells) :
                            GsfLayer(c) = SortedSeq(GsfLayers)[k]})
            /\ Val(nnodes(self)) = Len(GsfCells)
            /\ Len_iverts = Len(GsfCells)
            /\ Cardinality(GsfLayers) >= 2 => VariesByLayer

\* three cells were read, the first in the upper of two layers and the
\* others in the lower one: ncpl is [2, 1] and the grid varies by layer
LayersCountedByValue ==
    /\ ret.op = "from_gridspec" /\ pc = "alive"
    /\ Len(GsfCells) = 3
    /\ GsfLayer(1) = 3 /\ GsfLayer(2) = 1 /\ GsfLayer(3) = 1
    /\ Val(ncpl(self)) = <<2, 1>>
    /\ VariesByLayer

----------------------------------------------------------------------------
(* Properties of the polygons (specification SpecPolygons). *)

\* the vertex lists a rebuild derives from the grid's vertices and iverts
RebuiltVertices == build_grid_geometry_info(self).grid._cache_dict["xyzgrid"].data

\* the polygons built anew from the grid as it is: one list, or the cells
\* filed by layer (those of the nodes that have a cell)
RebuiltPolygons ==
    IF VariesByLayer
    THEN polygons_dict(RebuiltVertices, Val(ncpl(self)),
                       Min({Val(nnodes(self)), Len_iverts}))
    ELSE [kind |-> "list",
          map |-> <<[c \in 1..Val(ncpl(self))[1] |->
                        cell_path(RebuiltVertices, c)]>>]

\* C21: whatever was read or changed before, the polygons map_polygons
\* returns are those built from the grid's present vertices, iverts and
\* ncpl; polygons memoised before set_ncpl or clean_iverts(inplace=True)
\* are never returned afterwards
PolygonsAreCurrent ==
    (pc = "alive" /\ ret.op = "map_polygons" /\ ~ret.raised) =>
        ret.value = RebuiltPolygons

\* the layer (0-based) whose node range holds node n:
\* sum(ncpl[0..k-1]) <= n < sum(ncpl[0..k])
LayerOfNode(n) ==
    CHOOSE k \in 0..(Len(Val(ncpl(self))) - 1) :
        /\ SumFirst(Val(ncpl(self)), k) <= n
        /\ n < SumFirst(Val(ncpl(self)), k + 1)

\* C22: on a grid that varies by layer, the polygons map_polygons builds
\* are filed by node range: the polygon of cell n is under layer k exactly
\* when sum(ncpl[0..k-1]) <= n < sum(ncpl[0..k]), in the order of the cells,
\* layers without cells included in the count; this is the key under which
\* grid_lines files the segments of cell n
PolygonsFiledByNodeRange ==
    (pc = "alive" /\ ret.op = "map_polygons" /\ ~ret.raised
            /\ VariesByLayer /\ Val(nnodes(self)) = Len_iverts
            /\ ret.value = RebuiltPolygons) =>
        /\ ret.value.kind = "dict"
        /\ \A n \in 0..(Val(nnodes(self)) - 1) :
            /\ LayerOfNode(n) \in DOMAIN ret.value.map
            /\ n - SumFirst(Val(ncpl(self)), LayerOfNode(n)) + 1
                    \in DOMAIN ret.value.map[LayerOfNode(n)]
            /\ ret.value.map[LayerOfNode(n)]
                    [n - SumFirst(Val(ncpl(self)), LayerOfNode(n)) + 1]
                = cell_path(RebuiltVertices, n + 1)

\* vertex i (0-based, -1 being the last) of cell c (0-based) as a rebuild
\* derives it
VertexOf(c, i) ==
    <<RebuiltVertices[1][c + 1][(i % Len(RebuiltVertices[1][c + 1])) + 1],
      RebuiltVertices[2][c + 1][(i % Len(RebuiltVertices[2][c + 1])) + 1]>>

\* the segments of cell c: (v[i-1], v[i]) for i = 0..m-1
SegmentsOf(c) ==
    [i \in 1..Len(RebuiltVertices[1][c + 1]) |->
        <<VertexOf(c, i - 2), VertexOf(c, i - 1)>>]

\* the segments of cells first..first+count-1, cell after cell
SegmentsOfCells(first, count) ==
    Flatten([k \in 1..count |-> SegmentsOf(first + k - 1)])

\* C23: what grid_lines returns holds, for each cell with m vertices, the m
\* segments (v[i-1], v[i]), i = 0..m-1, in that order, the first joining the
\* last vertex to vertex 0: as one list over cells 0..ncpl[0]-1 on a grid
\* that does not vary by layer, as a mapping with a key for every layer
\* 0..nlay-1, holding the segments of the layer's node range, on one that
\* does
GridLinesSegments ==
    (pc = "alive" /\ ret.op = "grid_lines" /\ ~ret.raised) =>
        IF VariesByLayer
        THEN /\ ret.value.kind = "dict"
             /\ Len(ret.value.lines) = Val(nlay(self))
             /\ \A k \in 1..Val(nlay(self)) :
                    ret.value.lines[k]
                        = SegmentsOfCells(SumFirst(Val(ncpl(self)), k - 1),
                                          Val(ncpl(self))[k])
        ELSE /\ ret.value.kind = "list"
             /\ ret.value.lines
                    = <<SegmentsOfCells(0, Val(ncpl(self))[1])>>

\* grid_lines returned the segments of two cells of four vertices, filed
\* under the first and the last of three layers
LinesOfThreeLayers ==
    /\ pc = "alive" /\ ret.op = "grid_lines" /\ ~ret.raised
    /\ Val(ncpl(self)) = <<1, 0, 1>>
    /\ Len(ret.value.lines[1]) = 4
    /\ ret.value.lines[2] = << >>
    /\ Len(ret.value.lines[3]) = 4
    /\ ret.value.lines[3][1] = <<VertexOf(1, 3), VertexOf(1, 0)>>

----------------------------------------------------------------------------
(* Further properties of scaling (specification SpecEdit). *)

\* C24: the grid convert_grid returns has the ncpl, nlay, nnodes and
\* grid_varies_by_layer of the grid it was called on, be that grid of one
\* layer, of several layers that share one layout, or varying by layer
ConvertGridKeepsLayers ==
    [][(ret'.op = "convert_grid" /\ ~ret'.raised /\ ~gvbl_raises(self)) =>
            /\ ncpl(Val(ret'.value)) = ncpl(self)
            /\ nlay(Val(ret'.value)) = nlay(self)
            /\ nnodes(Val(ret'.value)) = nnodes(self)
            /\ grid_varies_by_layer(Val(ret'.value))
                    = grid_varies_by_layer(self)]_vars

----------------------------------------------------------------------------
(* Properties of the cache and its callers (specification SpecCache). *)

\* C25: whatever was called before, calls that raised included, what
\* xyzvertices, xyzcellcenters and cross_section_vertices hand out is not
\* the data of the cache, so that neither a caller who changes it nor
\* cross_section_vertices, which extends its lists in place, changes the
\* cache: the xyzgrid entry holds len(iverts) cells at all times
CacheIndependentOfCallers ==
    pc = "alive" =>
        /\ (ret.op \in {"xyzvertices", "xyzcellcenters",
                        "cross_section_vertices"} /\ ~ret.raised)
                => ~ret.live
        /\ ("xyzgrid" \in DOMAIN self._cache_dict /\ self._iverts # None) =>
                /\ Len(self._cache_dict["xyzgrid"].data[1]) = Len_iverts
                /\ Len(self._cache_dict["xyzgrid"].data[2]) = Len_iverts

====
